---- MODULE Spec2Model ----
(***************************************************************************)
(* YEAP survey dashboards: the general page (st_general_dashboard.py) and  *)
(* the specialized page (st_q345_dashboard.py).                            *)
(*                                                                         *)
(* Text is modelled as a sequence of one-character strings, so that        *)
(* trimming, substring search and len() are computed and not assumed.      *)
(* A Python dict is modelled as a sequence of [k, v] entries in insertion  *)
(* order with unique keys.                                                 *)
(*                                                                         *)
(* The source tree holds neither st_styles nor data_handler/visualizer,    *)
(* so both imports fail: STYLES_AVAILABLE and ORIGINAL_MODULES_AVAILABLE   *)
(* are False and the fallback classes of the two files are what runs.      *)
(***************************************************************************)
EXTENDS Integers, Sequences, FiniteSets, TLC

VARIABLES
    csv_file,           \* PART1_base_dataQ2-5.csv as it is on disk
    selected_year,      \* st.session_state['selected_year']
    read_result,        \* how the last safe_read_csv call ended
    questions_data,     \* GeneralDataProcessor.questions_data
    messages,           \* what load_data showed: st.error / st.success
    question_selector,  \* the select box "question_selector" ("unset": never touched)
    chart_type_selector,\* the select box "chart_type_selector" ("unset": never touched)
    page,               \* what the last run of create_layout showed below the header
    previous_render,    \* the run before it, when nothing was changed in between
    pc,                 \* "start": a run of the page is due, "done": it has run
    group_files,        \* PART2_base_dataQ3.csv, ...Q4.csv, ...Q5.csv as they are on disk
    session_region,     \* st.session_state: 'selected_region' and 'regions_options'
    sidebar_region,     \* the select box of the sidebar ("unset": never touched)
    group_page,         \* what the last run of the specialized page showed
    chart_call,         \* the arguments of a call of create_chart_unified
    chart_outcome       \* how that call ended

general_vars == <<csv_file, read_result, questions_data, messages,
                  question_selector, chart_type_selector, page, previous_render>>

specialized_vars == <<group_files, session_region, sidebar_region, group_page>>

call_vars == <<chart_call, chart_outcome>>

vars == <<general_vars, specialized_vars, call_vars, selected_year, pc>>

(***************************************************************************)
(* Bounds of the model.                                                    *)
(***************************************************************************)
MaxRows == 2
MaxOptions == 11
MaxGroupRows == 2
MaxTitleWords == 3
MaxEntries == 2
MaxQuestions == 3       \* rows of a table of many questions

(***************************************************************************)
(* Text.                                                                   *)
(***************************************************************************)
s_All == <<"A", "l", "l">>
s_Other == <<"O", "t", "h", "e", "r">>
s_OtherElaborated ==
    <<"O", "t", "h", "e", "r", " ", "(", "e", "l", "a", "b", "o", "r", "a", "t", "e", "d",
      " ", "a", "n", "s", "w", ")">>
s_Q4 == <<"Q", "4", ":">>
s_Q5 == <<"Q", "5", ":">>

Whitespace == {" ", "\t", "\n", "\r"}

RECURSIVE lstrip(_)
lstrip(s) ==
    IF s = <<>> THEN <<>>
    ELSE IF Head(s) \in Whitespace THEN lstrip(Tail(s)) ELSE s

RECURSIVE rstrip(_)
rstrip(s) ==
    IF s = <<>> THEN <<>>
    ELSE IF s[Len(s)] \in Whitespace THEN rstrip(SubSeq(s, 1, Len(s) - 1)) ELSE s

\* str.strip()
strip(s) == rstrip(lstrip(s))

\* sub in s
Contains(s, sub) ==
    \E i \in 1..(Len(s) - Len(sub) + 1) : SubSeq(s, i, i + Len(sub) - 1) = sub

(***************************************************************************)
(* dict.                                                                   *)
(***************************************************************************)
EmptyDict == <<>>

DictKeys(d) == {d[i].k : i \in DOMAIN d}

DictHas(d, key) == \E i \in DOMAIN d : d[i].k = key

\* d.get(key, default)
DictGet(d, key, default) ==
    IF DictHas(d, key)
    THEN d[CHOOSE i \in DOMAIN d : d[i].k = key].v
    ELSE default

\* d[key] = value: an existing key keeps its place, a new key goes last
DictSet(d, key, value) ==
    IF DictHas(d, key)
    THEN [i \in DOMAIN d |-> IF d[i].k = key THEN [k |-> key, v |-> value] ELSE d[i]]
    ELSE Append(d, [k |-> key, v |-> value])

DictDelTest(e, key) == e.k # key

\* del d[key]
DictDel(d, key) ==
    LET Keep(e) == DictDelTest(e, key) IN SelectSeq(d, Keep)

\* the keys are unique
IsDict(d) == \A i, j \in DOMAIN d : d[i].k = d[j].k => i = j

(***************************************************************************)
(* safe_read_csv.                                                          *)
(*                                                                         *)
(* A file is missing, malformed (pd.read_csv cannot tokenize it: a         *)
(* ParserError / EmptyDataError under any encoding) or ok.  Its bytes are  *)
(* "ascii" (every codec decodes them), "high" (not valid utf-8, valid in   *)
(* the one-byte codecs) or "c1" (a byte such as 0x81: not valid utf-8,     *)
(* undefined in cp1252, valid in latin-1 / iso-8859-1).                    *)
(***************************************************************************)
encodings == <<"utf-8", "latin-1", "cp1252", "iso-8859-1">>

Decodes(bytes, encoding) ==
    CASE encoding = "utf-8" -> bytes = "ascii"
      [] encoding = "latin-1" -> TRUE
      [] encoding = "cp1252" -> bytes # "c1"
      [] encoding = "iso-8859-1" -> TRUE

EmptyDataFrame == [columns |-> {}, rows |-> <<>>]

\* pd.read_csv(file_path, encoding=encoding): "ok" or the exception it raises
read_csv(f, encoding) ==
    IF f.state = "missing" THEN "FileNotFoundError"
    ELSE IF ~Decodes(f.bytes, encoding) THEN "UnicodeDecodeError"
    ELSE IF f.state = "malformed" THEN "ParserError"
    ELSE "ok"

Returned(f, encoding) ==
    [raised |-> "none", df |-> [columns |-> f.columns, rows |-> f.rows],
     encoding |-> encoding, reported |-> FALSE]

Raised(exc) ==
    [raised |-> exc, df |-> EmptyDataFrame, encoding |-> "none", reported |-> FALSE]

\* the last attempt, without an encoding argument (pandas then decodes as utf-8)
safe_read_csv_unqualified(f) ==
    IF read_csv(f, "utf-8") = "ok"
    THEN Returned(f, "default")
    ELSE [raised |-> "none", df |-> EmptyDataFrame, encoding |-> "none", reported |-> TRUE]

\* the for loop from the i-th encoding on: only UnicodeDecodeError is caught
RECURSIVE safe_read_csv_from(_, _)
safe_read_csv_from(f, i) ==
    IF i > Len(encodings) THEN safe_read_csv_unqualified(f)
    ELSE LET outcome == read_csv(f, encodings[i]) IN
         IF outcome = "ok" THEN Returned(f, encodings[i])
         ELSE IF outcome = "UnicodeDecodeError" THEN safe_read_csv_from(f, i + 1)
         ELSE Raised(outcome)

safe_read_csv(f) == safe_read_csv_from(f, 1)

(***************************************************************************)
(* GeneralDataProcessor.load_data.                                         *)
(*                                                                         *)
(* A count cell is missing (NaN), a number kept in tenths (25 is 2.5) or   *)
(* text that is no number.  One text cell makes pandas read the whole      *)
(* column as strings, and int() of the string "2.5" raises where int() of  *)
(* the float 2.5 truncates.                                                *)
(***************************************************************************)
NaN == [t |-> "nan", v |-> 0]
Num(tenths) == [t |-> "num", v |-> tenths]
Text == [t |-> "text", v |-> 0]

\* the count column holds strings
IsObjectColumn(rows) == \E i \in DOMAIN rows : rows[i].count.t = "text"

\* int(x) of a float: truncation toward zero
IntTrunc(tenths) == IF tenths >= 0 THEN tenths \div 10 ELSE -((-tenths) \div 10)

\* int(row['count']) raises ValueError
IntRaises(cell, object_column) ==
    \/ cell.t = "text"
    \/ cell.t = "num" /\ object_column /\ cell.v % 10 # 0

\* int(row['count']) if pd.notna(row['count']) else 0
CoerceCount(cell) == IF cell.t = "nan" THEN 0 ELSE IntTrunc(cell.v)

\* mutant: the year cell is compared as it is, blanks included
FilterYearTestUntrimmed(row, column, year) == row[column] = year

\* df[df['YEAR'].astype(str).str.strip() == str(selected_year)]
FilterYearTest(row, column, year) == strip(row[column]) = year

FilterYear(df, column, year) ==
    LET Keep(row) == FilterYearTest(row, column, year) IN
    [df EXCEPT !.rows = SelectSeq(df.rows, Keep)]

\* the global YEAR filter
ApplyYearFilter(df, year) ==
    IF year # s_All
    THEN IF "YEAR" \in df.columns THEN FilterYear(df, "YEAR", year)
         ELSE IF "year" \in df.columns THEN FilterYear(df, "year", year)
         ELSE df
    ELSE df

\* mutant: the columns are reported missing only when all three are
HasAnyRequiredColumn(df) ==
    ~("question" \notin df.columns /\ "option" \notin df.columns /\ "count" \notin df.columns)

HasRequiredColumns(df) ==
    ~("question" \notin df.columns \/ "option" \notin df.columns \/ "count" \notin df.columns)

\* mutant: a pair that is already stored keeps its first count
AggregateRowFirstWins(qd, row) ==
    LET question == strip(row.question)
        option == strip(row.option)
        count == CoerceCount(row.count)
        options_data == DictGet(qd, question, EmptyDict)
    IN IF DictHas(options_data, option) THEN qd
       ELSE DictSet(qd, question, DictSet(options_data, option, count))

\* one turn of the loop over df.iterrows()
AggregateRow(qd, row) ==
    LET question == strip(row.question)
        option == strip(row.option)
        count == CoerceCount(row.count)
        options_data == DictGet(qd, question, EmptyDict)
    IN DictSet(qd, question, DictSet(options_data, option, count))

RECURSIVE AggregateRows(_, _)
AggregateRows(qd, rows) ==
    IF rows = <<>> THEN qd
    ELSE AggregateRows(AggregateRow(qd, Head(rows)), Tail(rows))

IsQ4Q5(question_key) == Contains(question_key, s_Q4) \/ Contains(question_key, s_Q5)

\* mutant: the merge keeps the entry "Other (elaborated answ)"
MergeOtherKeepElaborated(question_key, options_data) ==
    IF IsQ4Q5(question_key)
    THEN LET other_count == DictGet(options_data, s_Other, 0)
             other_elaborated_count == DictGet(options_data, s_OtherElaborated, 0)
         IN IF other_count > 0 \/ other_elaborated_count > 0
            THEN DictSet(DictDel(options_data, s_Other),
                         s_Other, other_count + other_elaborated_count)
            ELSE options_data
    ELSE options_data

\* mutant: the merge asks for both counts to be positive
MergeNeededBoth(other_count, other_elaborated_count) ==
    other_count > 0 /\ other_elaborated_count > 0

MergeNeeded(other_count, other_elaborated_count) ==
    other_count > 0 \/ other_elaborated_count > 0

\* the body of the loop of _merge_other_options for one question
MergeOther(question_key, options_data) ==
    IF IsQ4Q5(question_key)
    THEN LET other_count == DictGet(options_data, s_Other, 0)
             other_elaborated_count == DictGet(options_data, s_OtherElaborated, 0)
         IN IF MergeNeeded(other_count, other_elaborated_count)
            THEN DictSet(DictDel(DictDel(options_data, s_Other), s_OtherElaborated),
                         s_Other, other_count + other_elaborated_count)
            ELSE options_data
    ELSE options_data

_merge_other_options(qd) ==
    [i \in DOMAIN qd |-> [k |-> qd[i].k, v |-> MergeOther(qd[i].k, qd[i].v)]]

\* the rows the loop of load_data runs over
RowsToAggregate(f, year) == ApplyYearFilter(safe_read_csv(f).df, year).rows

\* the loop of load_data raises (ValueError of int()); read is the table as read,
\* df the table the loop runs over
AggregationRaises(read, df) ==
    \E i \in DOMAIN df.rows : IntRaises(df.rows[i].count, IsObjectColumn(read.rows))

\* load_data: the questions_data it leaves and the messages it shows
load_data(f, year) ==
    LET r == safe_read_csv(f)
        said == IF r.reported THEN {"Failed to read"} ELSE {}
    IN IF r.raised # "none"
       THEN [questions_data |-> EmptyDict, messages |-> {"Error loading data"}]
       ELSE LET df == ApplyYearFilter(r.df, year) IN
            IF ~HasRequiredColumns(df)
            THEN [questions_data |-> EmptyDict,
                  messages |-> said \cup {"CSV file must contain columns"}]
            ELSE IF AggregationRaises(r.df, df)
            THEN [questions_data |-> EmptyDict,
                  messages |-> said \cup {"Error loading data"}]
            ELSE LET qd == AggregateRows(EmptyDict, df.rows) IN
                 IF qd # EmptyDict
                 THEN [questions_data |-> _merge_other_options(qd),
                       messages |-> said \cup {"Successfully loaded"}]
                 ELSE [questions_data |-> EmptyDict,
                       messages |-> said \cup {"No valid data found"}]

(***************************************************************************)
(* Visualizer.auto_select_chart_type (the fallback class of the general    *)
(* page).                                                                  *)
(***************************************************************************)
Max(S) == CHOOSE x \in S : \A y \in S : y <= x

\* max(len(str(label)) for label in data.keys())
MaxLabelLength(data) == Max({Len(data[i].k) : i \in DOMAIN data})

\* mutant: the cascade tests the label length before the number of options
auto_select_chart_type_length_first(data) ==
    IF data = EmptyDict THEN "table"
    ELSE IF MaxLabelLength(data) > 20 \/ Len(data) > 10 THEN "horizontal_bar"
    ELSE IF Len(data) <= 5 THEN "pie"
    ELSE "bar"

auto_select_chart_type(data) ==
    IF data = EmptyDict THEN "table"
    ELSE LET num_options == Len(data)
             max_label_length == MaxLabelLength(data)
         IN IF num_options <= 5 THEN "pie"
            ELSE IF max_label_length > 20 \/ num_options > 10 THEN "horizontal_bar"
            ELSE "bar"

(***************************************************************************)
(* GeneralDataProcessor._extract_question_number and the list of questions *)
(* offered for selection.                                                  *)
(***************************************************************************)
Digits == <<"0", "1", "2", "3", "4", "5", "6", "7", "8", "9">>

IsDigit(c) == \E i \in DOMAIN Digits : Digits[i] = c

DigitValue(c) == (CHOOSE i \in DOMAIN Digits : Digits[i] = c) - 1

\* the length of the longest run of digits of s that starts at position i
RECURSIVE DigitRun(_, _)
DigitRun(s, i) == IF i <= Len(s) /\ IsDigit(s[i]) THEN 1 + DigitRun(s, i + 1) ELSE 0

\* int() of a run of digits
RECURSIVE ParseInt(_)
ParseInt(ds) ==
    IF ds = <<>> THEN 0
    ELSE 10 * ParseInt(SubSeq(ds, 1, Len(ds) - 1)) + DigitValue(ds[Len(ds)])

\* re.match(r'^[Qq](\d+):', question_text), 999 without a match
_extract_question_number(question_text) ==
    IF question_text # <<>> /\ question_text[1] \in {"Q", "q"}
    THEN LET n == DigitRun(question_text, 2) IN
         IF n >= 1 /\ Len(question_text) >= n + 2 /\ question_text[n + 2] = ":"
         THEN ParseInt(SubSeq(question_text, 2, n + 1))
         ELSE 999
    ELSE 999

\* one insertion of sorted(): x goes behind every element whose key is not larger
RECURSIVE InsertByNumber(_, _)
InsertByNumber(sorted, x) ==
    IF sorted = <<>> THEN <<x>>
    ELSE IF _extract_question_number(Head(sorted)) <= _extract_question_number(x)
         THEN <<Head(sorted)>> \o InsertByNumber(Tail(sorted), x)
         ELSE <<x>> \o sorted

\* sorted(questions_data.keys(), key=_extract_question_number), a stable sort
RECURSIVE SortedQuestions(_)
SortedQuestions(keys) ==
    IF keys = <<>> THEN <<>>
    ELSE InsertByNumber(SortedQuestions(SubSeq(keys, 1, Len(keys) - 1)), keys[Len(keys)])

KeyList(d) == [i \in DOMAIN d |-> d[i].k]

\* mutant: the questions below 5 are offered
IsSelectableBelowFive(q) == _extract_question_number(q) < 5

IsSelectable(q) == _extract_question_number(q) <= 5

FilteredQuestions(qd) == SelectSeq(SortedQuestions(KeyList(qd)), IsSelectable)

(***************************************************************************)
(* create_chart_unified and the percentage table of create_layout.         *)
(***************************************************************************)
UpperCase == <<"A", "B", "C", "D", "E", "F", "G", "H", "I", "J", "K", "L", "M",
               "N", "O", "P", "Q", "R", "S", "T", "U", "V", "W", "X", "Y", "Z">>
LowerCase == <<"a", "b", "c", "d", "e", "f", "g", "h", "i", "j", "k", "l", "m",
               "n", "o", "p", "q", "r", "s", "t", "u", "v", "w", "x", "y", "z">>

LowerChar(c) ==
    IF \E i \in DOMAIN UpperCase : UpperCase[i] = c
    THEN LowerCase[CHOOSE i \in DOMAIN UpperCase : UpperCase[i] = c]
    ELSE c

\* str.lower()
lower(s) == [i \in DOMAIN s |-> LowerChar(s[i])]

s_other == <<"o", "t", "h", "e", "r">>
s_Q2 == <<"Q", "2", ":">>
s_Unknown == <<"U", "n", "k", "n", "o", "w", "n">>

RECURSIVE SumValues(_)
SumValues(d) == IF d = <<>> THEN 0 ELSE Head(d).v + SumValues(Tail(d))

\* mutant: the test for "other" looks at the label as it is spelled
NotOtherCaseSensitive(e) == ~Contains(e.k, s_other)

NotOther(e) == ~Contains(lower(e.k), s_other)

\* mutant: the "other" options are removed whatever the total
FilteredDataAnyTotal(selected_question, question_data) ==
    IF IsQ4Q5(selected_question) THEN SelectSeq(question_data, NotOther)
    ELSE question_data

\* the options of the selected question that are handed to the chart and the table
FilteredData(selected_question, question_data) ==
    IF IsQ4Q5(selected_question)
    THEN IF SumValues(question_data) > 0
         THEN SelectSeq(question_data, NotOther)
         ELSE question_data
    ELSE question_data

\* str(key) if key else "Unknown"
CleanKey(key) == IF key = <<>> THEN s_Unknown ELSE key

\* clean_data of create_chart_unified: the non-negative values, keyed by the clean key
RECURSIVE CleanData(_)
CleanData(data) ==
    IF data = <<>> THEN EmptyDict
    ELSE LET e == data[Len(data)]
             rest == CleanData(SubSeq(data, 1, Len(data) - 1))
         IN IF e.v >= 0 THEN DictSet(rest, CleanKey(e.k), e.v) ELSE rest

(***************************************************************************)
(* process_title_for_display: the line breaks of a chart title.            *)
(***************************************************************************)
s_Q3 == <<"Q", "3", ":">>
s_br == <<"<", "b", "r", ">">>

\* the index of the first sep in s, 0 when there is none
RECURSIVE find(_, _, _)
find(s, sep, from) ==
    IF from > Len(s) THEN 0
    ELSE IF s[from] = sep THEN from ELSE find(s, sep, from + 1)

\* str.split(sep) for a separator of one character: the pieces between the
\* separators, empty pieces included
RECURSIVE split(_, _)
split(s, sep) ==
    LET i == find(s, sep, 1)
    IN IF i = 0 THEN <<s>>
       ELSE <<SubSeq(s, 1, i - 1)>> \o split(SubSeq(s, i + 1, Len(s)), sep)

\* sep.join(pieces)
RECURSIVE join(_, _)
join(sep, pieces) ==
    IF pieces = <<>> THEN <<>>
    ELSE IF Len(pieces) = 1 THEN pieces[1]
    ELSE pieces[1] \o sep \o join(sep, Tail(pieces))

\* mutant: the break comes after the larger half of the words
mid_point_rounded_up(words) == (Len(words) + 1) \div 2

\* mid_point = len(words) // 2
mid_point(words) == Len(words) \div 2

\* the branch of the titles that hold 'Q2:' or 'Q3:'
break_at_midpoint(title) ==
    LET colon == find(title, ":", 1)
        question_part == SubSeq(title, 1, colon)
        content_part == strip(SubSeq(title, colon + 1, Len(title)))
        combined_length == Len(question_part) + Len(content_part) + 1
        words == split(content_part, " ")
    IN IF combined_length <= 80 THEN title
       ELSE IF Len(words) > 1
       THEN question_part \o <<" ">> \o join(<<" ">>, SubSeq(words, 1, mid_point(words)))
                \o s_br \o join(<<" ">>, SubSeq(words, mid_point(words) + 1, Len(words)))
       ELSE question_part \o s_br \o content_part

max_length == 50

\* mutant: the blank between the line and the word is not counted
fits_without_blank(current_line, word) == Len(current_line) + Len(word) <= max_length

\* len(current_line) + len(word) + 1 <= max_length
fits(current_line, word) == Len(current_line) + Len(word) + 1 <= max_length

\* the loop over the words: lines are the lines closed so far
RECURSIVE pack_words(_, _, _)
pack_words(words, lines, current_line) ==
    IF words = <<>>
    THEN IF current_line # <<>> THEN Append(lines, current_line) ELSE lines
    ELSE LET word == Head(words) IN
         IF fits(current_line, word)
         THEN pack_words(Tail(words), lines,
                         current_line
                            \o (IF current_line # <<>> THEN <<" ">> ELSE <<>>) \o word)
         ELSE pack_words(Tail(words),
                         IF current_line # <<>> THEN Append(lines, current_line) ELSE lines,
                         word)

\* the branch of the other titles
wrap_at_max_length(title) ==
    IF Len(title) <= max_length THEN title
    ELSE join(s_br, pack_words(split(title, " "), <<>>, <<>>))

process_title_for_display(title) ==
    IF title = <<>> THEN title
    ELSE IF Contains(title, s_Q2) \/ Contains(title, s_Q3)
    THEN break_at_midpoint(title)
    ELSE wrap_at_max_length(title)

NoFigure == [kind |-> "none", categories |-> <<>>, values |-> <<>>, annotation |-> "",
             title |-> <<>>, height |-> 0]

s_ChartError == <<"C", "h", "a", "r", "t", " ", "E", "r", "r", "o", "r">>

\* the figure of the except branch; its title is: title or "Chart Error"
ErrorFigure(text, title) ==
    [kind |-> "error", categories |-> <<>>, values |-> <<>>, annotation |-> text,
     title |-> IF title = <<>> THEN s_ChartError ELSE title, height |-> 400]

ChartFigure(chart_type, clean_data, title) ==
    [kind |-> IF chart_type \in {"pie", "horizontal_bar"} THEN chart_type ELSE "bar",
     categories |-> KeyList(clean_data),
     values |-> [i \in DOMAIN clean_data |-> clean_data[i].v],
     annotation |-> "", title |-> process_title_for_display(title), height |-> 500]

(***************************************************************************)
(* The data handed to create_chart_unified is a Python value: a dict, or   *)
(* something that is no dict.  A key of a dict is a text or None, a value  *)
(* an int, None, or a text.                                                *)
(***************************************************************************)
IntValue(n) == [t |-> "int", n |-> n]
NoneValue == [t |-> "None", n |-> 0]
TextValue == [t |-> "str", n |-> 0]
NoneKey == <<"None">>

\* a dict of texts and ints as a Python value
PyDict(d) ==
    [kind |-> "dict",
     entries |-> [i \in DOMAIN d |-> [k |-> d[i].k, v |-> IntValue(d[i].v)]]]

\* the items that pass "key is not None and value is not None", the value as
\* float(value) if isinstance(value, (int, float)) else 0
RECURSIVE ValidPairs(_)
ValidPairs(entries) ==
    IF entries = <<>> THEN <<>>
    ELSE LET e == Head(entries) IN
         (IF e.k # NoneKey /\ e.v.t # "None"
          THEN <<[k |-> e.k, v |-> IF e.v.t = "int" THEN e.v.n ELSE 0]>>
          ELSE <<>>) \o ValidPairs(Tail(entries))

\* the try block of create_chart_unified: the exception it raises with its text, or
\* the figure it returns
ChartTry(data, chart_type, title) ==
    IF data.kind # "dict" \/ data.entries = <<>>
    THEN [raised |-> "ValueError",
          text |-> "Invalid data: expected non-empty dictionary", fig |-> NoFigure]
    ELSE IF CleanData(ValidPairs(data.entries)) = EmptyDict
    THEN [raised |-> "ValueError", text |-> "No valid data points found", fig |-> NoFigure]
    ELSE [raised |-> "none", text |-> "",
          fig |-> ChartFigure(chart_type, CleanData(ValidPairs(data.entries)), title)]

\* mutant: the except clause catches TypeError only
CaughtTypeErrorOnly(exception) == exception = "TypeError"

\* except Exception as e
Caught(exception) == TRUE

\* a call of create_chart_unified: what it raised to its caller, whether it called
\* st.error, the figure it returned
ChartCall(data, chart_type, title) ==
    LET body == ChartTry(data, chart_type, title)
    IN IF body.raised = "none"
       THEN [raised |-> "none", reported |-> FALSE, fig |-> body.fig]
       ELSE IF Caught(body.raised)
       THEN [raised |-> "none", reported |-> TRUE,
             fig |-> ErrorFigure("Chart Error: " \o body.text, title)]
       ELSE [raised |-> body.raised, reported |-> FALSE, fig |-> NoFigure]

\* create_chart_unified(data, chart_type, title) on a dict of texts and ints: the
\* figure it returns
create_chart_unified(data, chart_type, title) ==
    ChartCall(PyDict(data), chart_type, title).fig

\* whether create_chart_unified reported an error (st.error)
ChartFailed(data) == data = EmptyDict \/ CleanData(data) = EmptyDict

\* one insertion of sort_values('Count', ascending=False): behind every row whose
\* count is not smaller, so that equal counts keep their order
RECURSIVE InsertByCount(_, _)
InsertByCount(sorted, x) ==
    IF sorted = <<>> THEN <<x>>
    ELSE IF Head(sorted).v >= x.v
         THEN <<Head(sorted)>> \o InsertByCount(Tail(sorted), x)
         ELSE <<x>> \o sorted

RECURSIVE SortByCountDescending(_)
SortByCountDescending(items) ==
    IF items = <<>> THEN <<>>
    ELSE InsertByCount(SortByCountDescending(SubSeq(items, 1, Len(items) - 1)),
                       items[Len(items)])

\* mutant: the percentage is cut to one decimal, not rounded
PercentTenthsTruncated(count, total) == (1000 * count) \div total

\* mutant: the percentage is rounded up to the next tenth
PercentTenthsRoundedUp(count, total) ==
    ((1000 * count) \div total) + (IF (1000 * count) % total = 0 THEN 0 ELSE 1)

\* (count / total * 100).round(1) in tenths of a percent, for total > 0: the nearest
\* tenth, a tie going to the even one
PercentTenths(count, total) ==
    LET q == (1000 * count) \div total
        r == (1000 * count) % total
    IN IF 2 * r < total THEN q
       ELSE IF 2 * r > total THEN q + 1
       ELSE IF q % 2 = 0 THEN q ELSE q + 1

\* str() of a natural number
RECURSIVE NatToText(_)
NatToText(n) ==
    IF n < 10 THEN <<Digits[n + 1]>>
    ELSE NatToText(n \div 10) \o <<Digits[(n % 10) + 1]>>

Abs(n) == IF n < 0 THEN -n ELSE n

\* astype(str) of a float with one decimal, given in tenths; negative is the sign of
\* the float (a negative count can round to -0.0)
FloatToText(tenths, negative) ==
    (IF negative THEN <<"-">> ELSE <<>>)
    \o NatToText(Abs(tenths) \div 10) \o <<".">> \o <<Digits[(Abs(tenths) % 10) + 1]>>

\* the Percentage cell of a row
PercentageText(count, total) ==
    IF total > 0
    THEN FloatToText(PercentTenths(count, total), count < 0) \o <<"%">>
    ELSE <<"0", "%">>

NoTable == [shown |-> FALSE, rows |-> <<>>]

\* the DataFrame with the columns Option, Count, Percentage handed to st.dataframe
PercentageTable(filtered_data) ==
    LET valid_items == [i \in DOMAIN filtered_data |->
                          [k |-> CleanKey(filtered_data[i].k), v |-> filtered_data[i].v]]
        df == SortByCountDescending(valid_items)
        total_count == SumValues(df)
    IN [shown |-> TRUE,
        rows |-> [i \in DOMAIN df |->
                    [Option |-> df[i].k, Count |-> df[i].v,
                     Percentage |-> PercentageText(df[i].v, total_count)]]]

ChartOptions == <<"Bar Chart", "Pie Chart", "Horizontal Bar">>

\* chart_type_mapping.get(auto_chart_type, 'Bar Chart')
DefaultChart(auto_chart_type) ==
    CASE auto_chart_type = "pie" -> "Pie Chart"
      [] auto_chart_type = "bar" -> "Bar Chart"
      [] auto_chart_type = "horizontal_bar" -> "Horizontal Bar"
      [] OTHER -> "Bar Chart"

ChartTypeKey(chart_type) ==
    IF chart_type = "Bar Chart" THEN "bar"
    ELSE IF chart_type = "Pie Chart" THEN "pie"
    ELSE "horizontal_bar"

NothingRendered ==
    [messages |-> {}, filtered_questions |-> <<>>,
     selected_question |-> <<>>, auto_chart_type |-> "none",
     chart_type |-> "none", fig |-> NoFigure, table |-> NoTable]

\* create_layout from the question list on: what it shows for the loaded questions_data
\* and the state of the two select boxes ("unset": the box shows its default)
RenderQuestions(qd, question_choice, chart_choice) ==
    IF qd = EmptyDict
    THEN [NothingRendered EXCEPT !.messages = {"No data available"}]
    ELSE IF FilteredQuestions(qd) = <<>>
    THEN [NothingRendered EXCEPT !.messages = {"No questions available"}]
    ELSE LET filtered_questions == FilteredQuestions(qd)
             selected_question ==
                 IF \E i \in DOMAIN filtered_questions :
                      filtered_questions[i] = question_choice
                 THEN question_choice
                 ELSE filtered_questions[1]
             question_data == DictGet(qd, selected_question, EmptyDict)
             auto_chart_type == auto_select_chart_type(question_data)
             chart_type ==
                 IF chart_choice = "unset" THEN DefaultChart(auto_chart_type)
                 ELSE chart_choice
             filtered_data == FilteredData(selected_question, question_data)
         IN [messages |->
                 (IF ChartFailed(filtered_data) THEN {"Error creating chart"} ELSE {})
                 \cup (IF filtered_data = EmptyDict THEN {"No response data available"}
                       ELSE {}),
             filtered_questions |-> filtered_questions,
             selected_question |-> selected_question,
             auto_chart_type |-> auto_chart_type,
             chart_type |-> chart_type,
             fig |-> create_chart_unified(filtered_data, ChartTypeKey(chart_type),
                                          selected_question),
             table |-> IF filtered_data # EmptyDict THEN PercentageTable(filtered_data)
                       ELSE NoTable]

(***************************************************************************)
(* The specialized page (st_q345_dashboard.py).                            *)
(*                                                                         *)
(* The header of an option column is kept in a table as an identifier      *)
(* ("Q4.2"), HeaderText gives its text; "endash" stands for the one        *)
(* character U+2013.  A row flags a set of option columns: their cells     *)
(* hold the row's cell text, the cells of the other option columns "NO".   *)
(***************************************************************************)
q3_columns ==
    <<
        <<"K", "n", "o", "w", "l", "e", "d", "g", "e", " ", "d", "e", "v", "e", "l",
          "o", "p", "m", "e", "n", "t", " ", "a", "n", "d", " ", "d", "i", "s", "s",
          "e", "m", "i", "n", "a", "t", "i", "o", "n", ".", " ">>,
        <<"T", "e", "c", "h", "n", "i", "c", "a", "l", " ", "a", "s", "s", "i", "s",
          "t", "a", "n", "c", "e", " ", "a", "n", "d", " ", "c", "a", "p", "a", "c",
          "i", "t", "y", "-", "b", "u", "i", "l", "d", "i", "n", "g", " ", "o", "f",
          " ", "c", "o", "n", "s", "t", "i", "t", "u", "e", "n", "t", "s", ".", " ">>,
        <<"A", "d", "v", "o", "c", "a", "c", "y", " ", "a", "n", "d", " ", "p", "a",
          "r", "t", "n", "e", "r", "s", "h", "i", "p", "s", ".", " ">>
    >>

q4_columns ==
    <<
        <<"E", "m", "p", "l", "o", "y", "m", "e", "n", "t", " ", "a", "n", "d", " ",
          "e", "c", "o", "n", "o", "m", "i", "c", " ", "p", "o", "l", "i", "c", "i",
          "e", "s", " ", "f", "o", "r", " ", "y", "o", "u", "t", "h", " ", "e", "m",
          "p", "l", "o", "y", "m", "e", "n", "t", ".", " ">>,
        <<"E", "m", "p", "l", "o", "y", "a", "b", "i", "l", "i", "t", "y", " ",
          "endash", " ", "E", "d", "u", "c", "a", "t", "i", "o", "n", ",", " ", "t",
          "r", "a", "i", "n", "i", "n", "g", " ", "a", "n", "d", " ", "s", "k", "i",
          "l", "l", "s", ",", " ", "a", "n", "d", " ", "t", "h", "e", " ", "s", "c",
          "h", "o", "o", "l", "-", "t", "o", "-", "w", "o", "r", "k", " ", "t", "r",
          "a", "n", "s", "i", "t", "i", "o", "n", ".", " ">>,
        <<"L", "a", "b", "o", "u", "r", " ", "m", "a", "r", "k", "e", "t", " ", "p",
          "o", "l", "i", "c", "i", "e", "s", ".", " ">>,
        <<"Y", "o", "u", "t", "h", " ", "e", "n", "t", "r", "e", "p", "r", "e", "n",
          "e", "u", "r", "s", "h", "i", "p", " ", "a", "n", "d", " ", "s", "e", "l",
          "f", "-", "e", "m", "p", "l", "o", "y", "m", "e", "n", "t", ".", " ">>,
        <<"R", "i", "g", "h", "t", "s", " ", "f", "o", "r", " ", "y", "o", "u", "n",
          "g", " ", "p", "e", "o", "p", "l", "e", ".", " ">>
    >>

q5_columns ==
    <<
        <<"Y", "o", "u", "n", "g", " ", "w", "o", "m", "e", "n">>,
        <<"Y", "o", "u", "n", "g", " ", "p", "e", "o", "p", "l", "e", " ", "n", "o",
          "t", " ", "i", "n", " ", "e", "m", "p", "l", "o", "y", "m", "e", "n", "t",
          ",", " ", "e", "d", "u", "c", "a", "t", "i", "o", "n", " ", "o", "r", " ",
          "t", "r", "a", "i", "n", "i", "n", "g", " ", "(", "N", "E", "E", "T", ")", " ">>,
        <<"Y", "o", "u", "n", "g", " ", "m", "i", "g", "r", "a", "n", "t", " ", "w",
          "o", "r", "k", "e", "r", "s", " ">>,
        <<"Y", "o", "u", "n", "g", " ", "r", "e", "f", "u", "g", "e", "e", "s", " ">>,
        <<"Y", "o", "u", "n", "g", " ", "p", "e", "o", "p", "l", "e", " ", "-", " ",
          "s", "e", "x", "u", "a", "l", " ", "o", "r", "i", "e", "n", "t", "a", "t",
          "i", "o", "n", " ", "a", "n", "d", " ", "g", "e", "n", "d", "e", "r", " ",
          "i", "d", "e", "n", "t", "i", "t", "y", " ">>,
        <<"Y", "o", "u", "n", "g", " ", "p", "e", "o", "p", "l", "e", " ", "w", "i",
          "t", "h", " ", "d", "i", "s", "a", "b", "i", "l", "i", "t", "i", "e", "s", " ">>,
        <<"Y", "o", "u", "n", "g", " ", "r", "u", "r", "a", "l", " ", "w", "o", "r",
          "k", "e", "r", "s", " ", " ">>,
        <<"Y", "o", "u", "n", "g", " ", "i", "n", "d", "i", "g", "e", "n", "o", "u",
          "s", " ", "p", "e", "o", "p", "l", "e", " ">>
    >>

Groups == <<"Q3", "Q4", "Q5">>

GroupColumns(group) ==
    CASE group = "Q3" -> q3_columns
      [] group = "Q4" -> q4_columns
      [] group = "Q5" -> q5_columns

HeaderIds(group) ==
    CASE group = "Q3" -> <<"Q3.1", "Q3.2", "Q3.3">>
      [] group = "Q4" -> <<"Q4.1", "Q4.2", "Q4.3", "Q4.4", "Q4.5">>
      [] group = "Q5" -> <<"Q5.1", "Q5.2", "Q5.3", "Q5.4", "Q5.5", "Q5.6", "Q5.7", "Q5.8">>

\* the header text of an option column of a table
HeaderText(id) ==
    LET group == CHOOSE g \in {"Q3", "Q4", "Q5"} :
                    \E i \in DOMAIN HeaderIds(g) : HeaderIds(g)[i] = id
        i == CHOOSE j \in DOMAIN HeaderIds(group) : HeaderIds(group)[j] = id
    IN GroupColumns(group)[i]

OptionHeaders(df) == df.columns \ {"Department/Region", "YEAR", "year"}

\* col in data.columns
HasColumn(df, col) == \E id \in OptionHeaders(df) : HeaderText(id) = col

CellOf(row, id) == IF id \in row.flagged THEN row.cell ELSE "NO"

\* mutant: the cells are compared without regard to case
YesCountAnyCase(df, col) ==
    LET id == CHOOSE h \in OptionHeaders(df) : HeaderText(h) = col
    IN Cardinality({i \in DOMAIN df.rows : CellOf(df.rows[i], id) \in {"YES", "Yes"}})

\* (data[col] == 'YES').sum()
YesCount(df, col) ==
    LET id == CHOOSE h \in OptionHeaders(df) : HeaderText(h) = col
    IN Cardinality({i \in DOMAIN df.rows : CellOf(df.rows[i], id) = "YES"})

\* str.rstrip('.')
RECURSIVE rstrip_periods(_)
rstrip_periods(s) ==
    IF s = <<>> THEN <<>>
    ELSE IF s[Len(s)] = "." THEN rstrip_periods(SubSeq(s, 1, Len(s) - 1)) ELSE s

\* col.strip().rstrip('.')
CleanName(col) == rstrip_periods(strip(col))

RECURSIVE process_question_data(_, _)
process_question_data(data, question_columns) ==
    IF question_columns = <<>> THEN EmptyDict
    ELSE LET col == question_columns[Len(question_columns)]
             results == process_question_data(
                            data, SubSeq(question_columns, 1, Len(question_columns) - 1))
         IN IF HasColumn(data, col) /\ YesCount(data, col) > 0
            THEN DictSet(results, CleanName(col), YesCount(data, col))
            ELSE results

\* mutant: the bar chart starts above five options
GroupChartTypeAboveFive(results) == IF Len(results) > 5 THEN "bar" ELSE "pie"

\* 'bar' if len(results) >= 5 else 'pie'
GroupChartType(results) == IF Len(results) >= 5 THEN "bar" ELSE "pie"

GroupTitle(group) ==
    CASE group = "Q3" ->
           "Distribution Of Outputs Across The Clusters Of The Implementation Framework"
      [] group = "Q4" ->
           "Distribution Of Outputs Across The Pillars Of The Call For Action On Youth Employment"
      [] group = "Q5" ->
           "Distribution Of Outputs Across Target Youth Groups, When Applicable"

\* create_standardized_chart(data_dict, group, chart_type)
create_standardized_chart(data_dict, group, chart_type) ==
    IF data_dict = EmptyDict \/ \A i \in DOMAIN data_dict : data_dict[i].v = 0
    THEN [kind |-> "no data", categories |-> <<>>, values |-> <<>>,
          annotation |-> "No data available for " \o group,
          title |-> group \o " Response Distribution", height |-> 500]
    ELSE [kind |-> IF chart_type = "pie" THEN "pie" ELSE "bar",
          categories |-> KeyList(data_dict),
          values |-> [i \in DOMAIN data_dict |-> data_dict[i].v],
          annotation |-> "", title |-> GroupTitle(group), height |-> 500]

\* the regions in the order sorted() gives them
RegionOrder == <<"North", "South">>

\* ['All'] + sorted(q3_data['Department/Region'].dropna().unique().tolist())
RegionOptions(df) ==
    LET Present(region) == \E i \in DOMAIN df.rows : df.rows[i].region = region
    IN <<"All">> \o SelectSeq(RegionOrder, Present)

\* the region the page filters by, the options it offers, and whether it filters
RegionChoice(q3_data, session, sidebar) ==
    IF {"selected_region", "regions_options"} \subseteq session.keys
    THEN [regions |-> session.regions_options, selected_region |-> session.selected_region,
          has_region_data |-> TRUE, said |-> {}]
    ELSE IF "Department/Region" \in q3_data.columns
    THEN LET regions == RegionOptions(q3_data) IN
         [regions |-> regions,
          selected_region |-> IF \E i \in DOMAIN regions : regions[i] = sidebar
                              THEN sidebar ELSE regions[1],
          has_region_data |-> TRUE, said |-> {}]
    ELSE [regions |-> <<>>, selected_region |-> "All", has_region_data |-> FALSE,
          said |-> {"Regional filtering not available"}]

\* mutant: the region filter keeps every row
FilterRegionKeepAll(df, selected_region) == df

\* q_data[q_data['Department/Region'] == selected_region]
FilterRegion(df, selected_region) ==
    LET Keep(row) == row.region = selected_region
    IN [df EXCEPT !.rows = SelectSeq(df.rows, Keep)]

NoGroupResults == [g \in {"Q3", "Q4", "Q5"} |-> EmptyDict]

NothingShown ==
    [status |-> "none", raised |-> "none", messages |-> {}, regions |-> <<>>,
     selected_region |-> "All", has_region_data |-> FALSE,
     results |-> NoGroupResults,
     chart_type |-> [g \in {"Q3", "Q4", "Q5"} |-> "none"],
     fig |-> [g \in {"Q3", "Q4", "Q5"} |-> NoFigure]]

\* the first of the three reads that raises, "none" when all return
FirstRaised(files) ==
    LET raised == [i \in DOMAIN Groups |-> safe_read_csv(files[Groups[i]]).raised]
    IN IF \A i \in DOMAIN Groups : raised[i] = "none" THEN "none"
       ELSE raised[CHOOSE i \in DOMAIN Groups :
                     raised[i] # "none" /\ \A j \in 1..(i - 1) : raised[j] = "none"]

\* create_layout of the specialized page
RenderGroups(files, year, session, sidebar) ==
    IF FirstRaised(files) = "FileNotFoundError"
    THEN [NothingShown EXCEPT !.status = "stopped", !.messages = {"Data files not found"}]
    ELSE IF FirstRaised(files) # "none"
    THEN [NothingShown EXCEPT !.status = "raised", !.raised = FirstRaised(files)]
    ELSE LET data == [g \in {"Q3", "Q4", "Q5"} |->
                        ApplyYearFilter(safe_read_csv(files[g]).df, year)]
             choice == RegionChoice(data["Q3"], session, sidebar)
             filtering == choice.has_region_data /\ choice.selected_region # "All"
         IN IF filtering /\ \E g \in {"Q3", "Q4", "Q5"} :
                               "Department/Region" \notin data[g].columns
            THEN [NothingShown EXCEPT
                    !.status = "raised", !.raised = "KeyError",
                    !.messages = choice.said \cup {"Showing data for"},
                    !.regions = choice.regions,
                    !.selected_region = choice.selected_region,
                    !.has_region_data = choice.has_region_data]
            ELSE LET results ==
                         [g \in {"Q3", "Q4", "Q5"} |->
                            process_question_data(
                                IF filtering
                                THEN FilterRegion(data[g], choice.selected_region)
                                ELSE data[g],
                                GroupColumns(g))]
                 IN [status |-> "rendered", raised |-> "none",
                     messages |-> choice.said
                                  \cup (IF filtering THEN {"Showing data for"} ELSE {}),
                     regions |-> choice.regions,
                     selected_region |-> choice.selected_region,
                     has_region_data |-> choice.has_region_data,
                     results |-> results,
                     chart_type |-> [g \in {"Q3", "Q4", "Q5"} |-> GroupChartType(results[g])],
                     fig |-> [g \in {"Q3", "Q4", "Q5"} |->
                                create_standardized_chart(results[g], g,
                                                          GroupChartType(results[g]))]]

(***************************************************************************)
(* The source file and the shared filter state the general page can meet.  *)
(***************************************************************************)
t_Q1A == <<"Q", "1", ":", " ", "A">>
t_Q4B == <<" ", "Q", "4", ":", " ", "B", " ">>
t_Yes == <<"Y", "e", "s">>
t_OtherPadded == <<" ", "O", "t", "h", "e", "r", " ">>
t_2023 == <<"2", "0", "2", "3">>
t_2024 == <<"2", "0", "2", "4">>
t_2024Padded == <<" ", "2", "0", "2", "4">>
NoText == <<>>

QuestionCells == {t_Q1A, t_Q4B}
OptionCells == {t_Yes, t_OtherPadded, s_OtherElaborated}
CountCells == {NaN, Text, Num(0), Num(30), Num(25), Num(-20)}
\* the count cells of the tables that have a year column
YearTableCountCells == {NaN, Text, Num(25)}
YearCells == {t_2023, t_2024Padded}
SelectedYears == {s_All, t_2024}

RequiredColumns == {"question", "option", "count"}

ColumnSets ==
    {RequiredColumns, RequiredColumns \cup {"YEAR"}, RequiredColumns \cup {"year"}}
    \cup {RequiredColumns \ {c} : c \in RequiredColumns}
    \cup {{"Question", "option", "count"}}

\* the cells of a column the table does not have are absent
CellsOf(columns, column, cells, absent) == IF column \in columns THEN cells ELSE {absent}

RowsOf(columns) ==
    [question : CellsOf(columns, "question", QuestionCells, NoText),
     option : CellsOf(columns, "option", OptionCells, NoText),
     count : CellsOf(columns, "count",
                     IF columns \cap {"YEAR", "year"} = {} THEN CountCells
                     ELSE YearTableCountCells, NaN),
     YEAR : CellsOf(columns, "YEAR", YearCells, NoText),
     year : CellsOf(columns, "year", YearCells, NoText)]

MissingFile == [state |-> "missing", bytes |-> "ascii", columns |-> {}, rows |-> <<>>]
MalformedFile == [state |-> "malformed", bytes |-> "ascii", columns |-> {}, rows |-> <<>>]

OkFile(bytes, columns, rows) ==
    [state |-> "ok", bytes |-> bytes, columns |-> columns, rows |-> rows]

\* the i-th row of a table that has both a YEAR and a year column
BothYearsRow(i, YEAR, year) ==
    [question |-> t_Q1A, option |-> IF i = 1 THEN t_Yes ELSE s_OtherElaborated,
     count |-> Num(25), YEAR |-> YEAR, year |-> year]

\* every table of at most MaxRows rows in ascii, the one-row tables in other bytes,
\* the tables that have both year columns
IsInputFile(f) ==
    \/ f \in {MissingFile, MalformedFile}
    \/ \E cs \in ColumnSets, n \in 0..MaxRows :
         \E rows \in [1..n -> RowsOf(cs)] : f = OkFile("ascii", cs, rows)
    \/ \E b \in {"high", "c1"}, n \in 0..1 :
         \E rows \in [1..n -> RowsOf(RequiredColumns)] : f = OkFile(b, RequiredColumns, rows)
    \/ \E n \in 1..MaxRows :
         \E years \in [1..n -> YearCells \X YearCells] :
            f = OkFile("ascii", RequiredColumns \cup {"YEAR", "year"},
                       [i \in 1..n |-> BothYearsRow(i, years[i][1], years[i][2])])

\* how a call of safe_read_csv ended: what it raised, the encoding that read the
\* table, whether it reported a failure
Outcome(r) == [raised |-> r.raised, encoding |-> r.encoding, reported |-> r.reported]

NoRead == [raised |-> "none", encoding |-> "none", reported |-> FALSE]

\* a row of a group table
GroupRow(flagged, cell, region, year) ==
    [flagged |-> flagged, cell |-> cell, region |-> region, YEAR |-> year, year |-> NoText]

\* the option columns of a group's table, in the order of the file
AllHeaders(group) == {HeaderIds(group)[i] : i \in DOMAIN HeaderIds(group)}

FirstHeaders(group, n) == {HeaderIds(group)[i] : i \in 1..n}

\* a table that has every option column and the region column; one output of North
BaseTable(group) ==
    OkFile("ascii", AllHeaders(group) \cup {"Department/Region"},
           <<GroupRow(FirstHeaders(group, 1), "YES", "North", NoText)>>)

BaseFiles == [g \in {"Q3", "Q4", "Q5"} |-> BaseTable(g)]

NoSession == [keys |-> {}, regions_options |-> <<>>, selected_region |-> "All"]

NoChartCall == [data |-> [kind |-> "None", entries |-> <<>>], chart_type |-> "none",
                title |-> <<>>]
NoChartOutcome == [raised |-> "none", reported |-> FALSE, fig |-> NoFigure]

\* create_chart_unified is not called on its own
NoCall == chart_call = NoChartCall /\ chart_outcome = NoChartOutcome

\* no run of the page came before
NoRender == [rendered |-> FALSE, questions_data |-> EmptyDict, page |-> NothingRendered]

\* the session state while the specialized page is not in use
SpecializedPageUnused ==
    /\ group_files = BaseFiles
    /\ session_region = NoSession
    /\ sidebar_region = "unset"
    /\ group_page = NothingShown

(***************************************************************************)
(* The general page on the tables of at most MaxRows rows: create_layout   *)
(* is run anew from the top by every interaction.                          *)
(***************************************************************************)
Init ==
    /\ IsInputFile(csv_file)
    /\ selected_year \in SelectedYears
    /\ read_result = NoRead
    /\ questions_data = EmptyDict
    /\ messages = {}
    /\ question_selector = "unset"
    /\ chart_type_selector = "unset"
    /\ page = NothingRendered
    /\ previous_render = NoRender
    /\ pc = "start"
    /\ SpecializedPageUnused
    /\ NoCall

\* create_layout: GeneralDataProcessor() loads the file, the rest renders the questions
CreateLayout ==
    /\ pc = "start"
    /\ read_result' = Outcome(safe_read_csv(csv_file))
    /\ LET data_processor == load_data(csv_file, selected_year) IN
         /\ questions_data' = data_processor.questions_data
         /\ messages' = data_processor.messages
    /\ page' = RenderQuestions(questions_data', question_selector, chart_type_selector)
    /\ pc' = "done"
    /\ UNCHANGED <<csv_file, selected_year, question_selector, chart_type_selector,
                   previous_render>>
    /\ UNCHANGED <<specialized_vars, call_vars>>

\* what a new run of the page starts from
Rerun ==
    /\ read_result' = NoRead
    /\ questions_data' = EmptyDict
    /\ messages' = {}
    /\ page' = NothingRendered
    /\ pc' = "start"

\* the sibling page writes selected_year; the page is run again
SetYear(year) ==
    /\ pc = "done"
    /\ year # selected_year
    /\ selected_year' = year
    /\ previous_render' = NoRender
    /\ Rerun
    /\ UNCHANGED <<csv_file, question_selector, chart_type_selector>>
    /\ UNCHANGED <<specialized_vars, call_vars>>

\* the user picks a chart type; the page is run again
SelectChartType(chart_type) ==
    /\ pc = "done"
    /\ page.chart_type # "none"
    /\ chart_type # page.chart_type
    /\ chart_type_selector' = chart_type
    /\ previous_render' = NoRender
    /\ Rerun
    /\ UNCHANGED <<csv_file, selected_year, question_selector>>
    /\ UNCHANGED <<specialized_vars, call_vars>>

\* the user picks one of the offered questions; the page is run again
SelectQuestion(question) ==
    /\ pc = "done"
    /\ \E i \in DOMAIN page.filtered_questions : page.filtered_questions[i] = question
    /\ question # page.selected_question
    /\ question_selector' = question
    /\ previous_render' = NoRender
    /\ Rerun
    /\ UNCHANGED <<csv_file, selected_year, chart_type_selector>>
    /\ UNCHANGED <<specialized_vars, call_vars>>

\* an interaction that changes nothing: the page is run again
RerunUnchanged ==
    /\ pc = "done"
    /\ previous_render' = [rendered |-> TRUE, questions_data |-> questions_data,
                           page |-> page]
    /\ Rerun
    /\ UNCHANGED <<csv_file, selected_year, question_selector, chart_type_selector>>
    /\ UNCHANGED <<specialized_vars, call_vars>>

Next ==
    \/ CreateLayout
    \/ \E year \in SelectedYears : SetYear(year)

Spec == Init /\ [][Next]_vars

\* the same tables, the page also run again with nothing changed
NextRerun ==
    \/ CreateLayout
    \/ RerunUnchanged
    \/ \E year \in SelectedYears : SetYear(year)

SpecRerun == Init /\ [][NextRerun]_vars

(***************************************************************************)
(* The general page on one-question tables: up to MaxOptions options with  *)
(* labels of 20 and 21 characters, and up to three options with the counts *)
(* of CountValues.                                                         *)
(***************************************************************************)
t_Q4Bstripped == <<"Q", "4", ":", " ", "B">>
t_Q7C == <<"Q", "7", ":", " ", "C">>
t_No == <<"N", "o">>

\* the i-th label of the given length
Label(i, length) == <<LowerCase[i]>> \o [j \in 1..(length - 1) |-> "x"]

LabelLengths == {20, 21}
CountValues == {Num(0), Num(10), Num(200), Num(300), Num(-10)}
CountedLabels == <<t_Yes, t_No, s_Other>>

InputRow(question, option, count) ==
    [question |-> question, option |-> option, count |-> count,
     YEAR |-> NoText, year |-> NoText]

IsRenderFile(f) ==
    \/ \E n \in 1..MaxOptions :
         \E lengths \in [1..n -> LabelLengths] :
            f = OkFile("ascii", RequiredColumns,
                       [i \in 1..n |-> InputRow(t_Q1A, Label(i, lengths[i]), Num(10))])
    \/ \E question \in {t_Q1A, t_Q4Bstripped, t_Q7C} :
         \E n \in 1..Len(CountedLabels) :
            \E labels \in [1..n -> DOMAIN CountedLabels] :
               /\ \A i \in 1..(n - 1) : labels[i] < labels[i + 1]
               /\ \E counts \in [1..n -> CountValues] :
                    f = OkFile("ascii", RequiredColumns,
                               [i \in 1..n |->
                                  InputRow(question, CountedLabels[labels[i]], counts[i])])

InitRender ==
    /\ IsRenderFile(csv_file)
    /\ selected_year = s_All
    /\ read_result = NoRead
    /\ questions_data = EmptyDict
    /\ messages = {}
    /\ question_selector = "unset"
    /\ chart_type_selector = "unset"
    /\ page = NothingRendered
    /\ previous_render = NoRender
    /\ pc = "start"
    /\ SpecializedPageUnused
    /\ NoCall

NextRender ==
    \/ CreateLayout
    \/ \E chart_type \in {ChartOptions[i] : i \in DOMAIN ChartOptions} :
         SelectChartType(chart_type)

SpecRender == InitRender /\ [][NextRender]_vars

(***************************************************************************)
(* The general page on one-option tables whose question is a long title:   *)
(* a head, then up to MaxTitleWords words of the given lengths (a word of  *)
(* length 0 is what two blanks in a row hold between them).                *)
(***************************************************************************)
s_Q1 == <<"Q", "1", ":">>
t_Q1Q3 == <<"Q", "1", ":", " ", "Q", "3", ":">>

MarkedHeads == {s_Q2, t_Q1Q3}
PlainHeads == {s_Q1, s_Q5}
MarkedWordLengths == {0, 1, 37, 38, 77}
PlainWordLengths == {0, 1, 23, 46, 47, 51}

\* the i-th word of a title: the i-th letter, length times
TitleWord(i, length) == [j \in 1..length |-> LowerCase[i]]

\* the head, the separator and the words, a blank between two words
TitleOf(head, separator, lengths) ==
    head \o separator \o join(<<" ">>, [i \in DOMAIN lengths |-> TitleWord(i, lengths[i])])

IsTitleFile(f) ==
    \E n \in 1..MaxTitleWords, separator \in {<<>>, <<" ">>} :
       \/ \E head \in MarkedHeads, lengths \in [1..n -> MarkedWordLengths] :
            f = OkFile("ascii", RequiredColumns,
                       <<InputRow(TitleOf(head, separator, lengths), t_Yes, Num(100))>>)
       \/ \E head \in PlainHeads, lengths \in [1..n -> PlainWordLengths] :
            f = OkFile("ascii", RequiredColumns,
                       <<InputRow(TitleOf(head, separator, lengths), t_Yes, Num(100))>>)

InitTitle ==
    /\ IsTitleFile(csv_file)
    /\ selected_year = s_All
    /\ read_result = NoRead
    /\ questions_data = EmptyDict
    /\ messages = {}
    /\ question_selector = "unset"
    /\ chart_type_selector = "unset"
    /\ page = NothingRendered
    /\ previous_render = NoRender
    /\ pc = "start"
    /\ SpecializedPageUnused
    /\ NoCall

NextTitle ==
    \/ CreateLayout
    \/ \E chart_type \in {ChartOptions[i] : i \in DOMAIN ChartOptions} :
         SelectChartType(chart_type)

SpecTitle == InitTitle /\ [][NextTitle]_vars

(***************************************************************************)
(* The list of questions: tables of at most MaxQuestions rows, each row of *)
(* a question whose label has a numeral from 1 to 10 behind Q or q, or no  *)
(* numeral that _extract_question_number finds.                            *)
(***************************************************************************)
t_q2d == <<"q", "2", ":", " ", "d">>
t_Q10E == <<"Q", "1", "0", ":", " ", "E">>
t_Q5G == <<"Q", "5", ":", " ", "G">>
t_Q3H == <<"Q", "3", " ", "H">>

QuestionLabels == {t_Q1A, t_Q4Bstripped, t_Q7C, t_q2d, t_Q10E, t_Q5G, t_Q3H}

IsQuestionsFile(f) ==
    \E n \in 1..MaxQuestions :
       \E labels \in [1..n -> QuestionLabels] :
          f = OkFile("ascii", RequiredColumns,
                     [i \in 1..n |-> InputRow(labels[i], t_Yes, Num(100))])

InitQuestions ==
    /\ IsQuestionsFile(csv_file)
    /\ selected_year = s_All
    /\ read_result = NoRead
    /\ questions_data = EmptyDict
    /\ messages = {}
    /\ question_selector = "unset"
    /\ chart_type_selector = "unset"
    /\ page = NothingRendered
    /\ previous_render = NoRender
    /\ pc = "start"
    /\ SpecializedPageUnused
    /\ NoCall

NextQuestions ==
    \/ CreateLayout
    \/ \E question \in QuestionLabels : SelectQuestion(question)

SpecQuestions == InitQuestions /\ [][NextQuestions]_vars

(***************************************************************************)
(* The specialized page: one of the three files varies over the tables of  *)
(* at most MaxGroupRows rows, each row flagging the first n option columns *)
(* of its group and the last row possibly in the spelling "Yes"; the other *)
(* two files hold the base table.  A year is                               *)
(* selected over the tables that may have a YEAR column.                   *)
(***************************************************************************)
Regions == {RegionOrder[i] : i \in DOMAIN RegionOrder}

\* the files on disk: the given group's file is f, the others hold the base table
OnDisk(group, f) == group_files = [BaseFiles EXCEPT ![group] = f]

GroupFilesVary(group) ==
    \/ \E f \in {MissingFile, MalformedFile} : OnDisk(group, f)
    \/ \E n \in 0..MaxGroupRows :
         \E flags \in [1..n -> 0..Len(HeaderIds(group))],
            last_cell \in {"YES", "Yes"},
            regions \in [1..n -> Regions] :
            selected_year = s_All /\
            OnDisk(group,
                   OkFile("ascii", AllHeaders(group) \cup {"Department/Region"},
                          [i \in 1..n |-> GroupRow(FirstHeaders(group, flags[i]),
                                                    IF i = n THEN last_cell ELSE "YES",
                                                    regions[i], NoText)]))
    \/ \E columns \in {AllHeaders(group),
                        FirstHeaders(group, Len(HeaderIds(group)) - 1)
                            \cup {"Department/Region"},
                        AllHeaders(group) \cup {"Department/Region", "YEAR"}},
          year \in {t_2023, t_2024Padded}, region \in Regions :
          OnDisk(group,
                 OkFile("ascii", columns,
                        <<GroupRow(AllHeaders(group) \cap columns, "YES", region,
                                   IF "YEAR" \in columns THEN year ELSE NoText),
                          GroupRow(FirstHeaders(group, 1), "YES", "North",
                                   IF "YEAR" \in columns THEN t_2024 ELSE NoText)>>))

SharedSelection(region) ==
    [keys |-> {"selected_region", "regions_options"},
     regions_options |-> <<"All">> \o RegionOrder, selected_region |-> region]

\* what the sibling page may have left in the session
Sessions ==
    {NoSession, [NoSession EXCEPT !.keys = {"selected_region"}],
     SharedSelection("All"), SharedSelection("South")}

GeneralPageUnused ==
    /\ csv_file = MissingFile
    /\ read_result = NoRead
    /\ questions_data = EmptyDict
    /\ messages = {}
    /\ question_selector = "unset"
    /\ chart_type_selector = "unset"
    /\ page = NothingRendered
    /\ previous_render = NoRender

InitSpecialized ==
    /\ GeneralPageUnused
    /\ NoCall
    /\ selected_year \in SelectedYears
    /\ \E group \in {"Q3", "Q4", "Q5"} : GroupFilesVary(group)
    /\ session_region \in Sessions
    /\ sidebar_region = "unset"
    /\ group_page = NothingShown
    /\ pc = "start"

\* create_layout of the specialized page
CreateLayoutSpecialized ==
    /\ pc = "start"
    /\ group_page' = RenderGroups(group_files, selected_year, session_region, sidebar_region)
    /\ pc' = "done"
    /\ UNCHANGED <<general_vars, call_vars, selected_year, group_files, session_region, sidebar_region>>

\* the user picks a region in the sidebar; the page is run again
SelectRegion(region) ==
    /\ pc = "done"
    /\ group_page.status = "rendered"
    /\ ~({"selected_region", "regions_options"} \subseteq session_region.keys)
    /\ \E i \in DOMAIN group_page.regions : group_page.regions[i] = region
    /\ region # group_page.selected_region
    /\ sidebar_region' = region
    /\ group_page' = NothingShown
    /\ pc' = "start"
    /\ UNCHANGED <<general_vars, call_vars, selected_year, group_files, session_region>>

NextSpecialized ==
    \/ CreateLayoutSpecialized
    \/ \E region \in {"All"} \cup Regions : SelectRegion(region)

SpecSpecialized == InitSpecialized /\ [][NextSpecialized]_vars

(***************************************************************************)
(* create_chart_unified called on its own: data that is None, a list, or a *)
(* dict of at most MaxEntries items with different keys.                   *)
(***************************************************************************)
EntryKeys == {t_Yes, t_No, <<>>, NoneKey}
EntryValues == {IntValue(10), IntValue(0), IntValue(-5), NoneValue, TextValue}
CallChartTypes == {"pie", "bar", "horizontal_bar", "table"}
CallTitles == {t_Q1A, <<>>}

InitChart ==
    /\ GeneralPageUnused
    /\ SpecializedPageUnused
    /\ selected_year = s_All
    /\ \E n \in 0..MaxEntries, kind \in {"None", "list", "dict"},
          chart_type \in CallChartTypes, title \in CallTitles :
          \E keys \in [1..n -> EntryKeys], values \in [1..n -> EntryValues] :
             /\ kind # "dict" => n = 0
             /\ \A i, j \in 1..n : i # j => keys[i] # keys[j]
             /\ chart_call =
                  [data |-> [kind |-> kind,
                             entries |-> [i \in 1..n |-> [k |-> keys[i], v |-> values[i]]]],
                   chart_type |-> chart_type, title |-> title]
    /\ chart_outcome = NoChartOutcome
    /\ pc = "start"

\* create_chart_unified(data, chart_type, title)
CallCreateChart ==
    /\ pc = "start"
    /\ chart_outcome' = ChartCall(chart_call.data, chart_call.chart_type, chart_call.title)
    /\ pc' = "done"
    /\ UNCHANGED <<general_vars, specialized_vars, chart_call, selected_year>>

NextChart == CallCreateChart

SpecChart == InitChart /\ [][NextChart]_vars

(***************************************************************************)
(* What the claims about load_data speak of.                               *)
(***************************************************************************)
\* the rows of the table that pass the year filter
SourceRows == RowsToAggregate(csv_file, selected_year)

\* load_data ran to the end of its aggregation and found at least one question
Loaded == pc = "done" /\ "Successfully loaded" \in messages

SameKey(row, question, option) ==
    strip(row.question) = question /\ strip(row.option) = option

HasRow(question, option) ==
    \E i \in DOMAIN SourceRows : SameKey(SourceRows[i], question, option)

\* the integer coercion of a count cell: 0 for a missing one, else the integer part
IntegerOf(cell) ==
    IF cell.t = "nan" THEN 0
    ELSE CHOOSE n \in -100..100 :
           IF cell.v >= 0 THEN 10 * n <= cell.v /\ cell.v < 10 * n + 10
           ELSE 10 * n >= cell.v /\ cell.v > 10 * n - 10

\* the coerced count of the last row of the pair, 0 when the pair has no row
LastCount(question, option) ==
    IF HasRow(question, option)
    THEN LET last == CHOOSE i \in DOMAIN SourceRows :
                       /\ SameKey(SourceRows[i], question, option)
                       /\ \A j \in DOMAIN SourceRows :
                            SameKey(SourceRows[j], question, option) => j <= i
         IN IntegerOf(SourceRows[last].count)
    ELSE 0

Stored(question, option) == DictGet(DictGet(questions_data, question, EmptyDict), option, 0)

Holds(question, option) ==
    DictHas(questions_data, question)
    /\ DictHas(DictGet(questions_data, question, EmptyDict), option)

CatchAll == {s_Other, s_OtherElaborated}

\* the Other-merge rewrites the catch-all entries of this question
Merged(question) ==
    IsQ4Q5(question)
    /\ (LastCount(question, s_Other) > 0 \/ LastCount(question, s_OtherElaborated) > 0)

\* C1, as stated and read in its most favourable sense (only the rows that pass the
\* year filter, only a load that ran to its end): every row (q, o, c) is found in
\* questions_data as option trim(o) of question trim(q) with the integer coercion of c.
C1_EveryRowStored ==
    Loaded =>
        \A i \in DOMAIN SourceRows :
            LET question == strip(SourceRows[i].question)
                option == strip(SourceRows[i].option)
            IN Holds(question, option)
               /\ Stored(question, option) = IntegerOf(SourceRows[i].count)

\* C1, amended: after load_data, every row that passes the year filter is found under
\* question trim(q); its option trim(o) holds the integer coercion of the count of the
\* LAST row of that (question, option) pair, except for the catch-all options of a
\* Q4:/Q5: question one of whose two counts is > 0, in place of which the single option
\* "Other" holds the sum of the two; a load that does not run to its end (a missing
\* column, a count that int() rejects) leaves questions_data empty.
C1_LastRowStoredOrMerged ==
    pc = "done" =>
        IF Loaded
        THEN \A i \in DOMAIN SourceRows :
               LET question == strip(SourceRows[i].question)
                   option == strip(SourceRows[i].option)
               IN IF Merged(question) /\ option \in CatchAll
                  THEN /\ Holds(question, s_Other)
                       /\ ~Holds(question, s_OtherElaborated)
                       /\ Stored(question, s_Other) =
                            LastCount(question, s_Other)
                            + LastCount(question, s_OtherElaborated)
                  ELSE /\ Holds(question, option)
                       /\ Stored(question, option) = LastCount(question, option)
        ELSE questions_data = EmptyDict

\* C1 witness: a load that stored a pair given by two rows with different counts
C1_Witness ==
    /\ Loaded
    /\ Len(SourceRows) = 2
    /\ SameKey(SourceRows[2], strip(SourceRows[1].question), strip(SourceRows[1].option))
    /\ IntegerOf(SourceRows[1].count) # IntegerOf(SourceRows[2].count)
    /\ SourceRows[1].option # strip(SourceRows[1].option)
    /\ Stored(strip(SourceRows[1].question), strip(SourceRows[1].option)) = 3

\* the number of catch-all entries in the OptionCounts of a question
CatchAllEntries(question) ==
    LET od == DictGet(questions_data, question, EmptyDict)
    IN Cardinality({i \in DOMAIN od : od[i].k \in CatchAll})

\* the pair has exactly one row, with a count that is a number >= 0
OneValidRow(question, option) ==
    /\ Cardinality({i \in DOMAIN SourceRows : SameKey(SourceRows[i], question, option)}) = 1
    /\ \A i \in DOMAIN SourceRows :
         SameKey(SourceRows[i], question, option) =>
           SourceRows[i].count.t = "num" /\ SourceRows[i].count.v >= 0

\* C2, as stated (for source rows that give each of the two options once, with a valid
\* count): a Q4:/Q5: question whose rows hold both "Other" and "Other (elaborated answ)"
\* ends with exactly one catch-all entry, keyed "Other", holding the sum.
C2_AlwaysOneOther ==
    Loaded =>
        \A q \in DictKeys(questions_data) :
            (IsQ4Q5(q) /\ OneValidRow(q, s_Other) /\ OneValidRow(q, s_OtherElaborated)) =>
                /\ CatchAllEntries(q) = 1
                /\ Holds(q, s_Other)
                /\ Stored(q, s_Other) =
                     LastCount(q, s_Other) + LastCount(q, s_OtherElaborated)

\* C2, amended: when the Other-merge runs, a Q4:/Q5: question whose aggregated options
\* hold both "Other" and "Other (elaborated answ)" ends with exactly one catch-all
\* entry, keyed "Other", holding the sum of the two counts, provided one of the two
\* counts is > 0; when neither is, both entries stay as they were aggregated.
C2_OneOtherWhenPositive ==
    Loaded =>
        \A q \in DictKeys(questions_data) :
            (IsQ4Q5(q) /\ HasRow(q, s_Other) /\ HasRow(q, s_OtherElaborated)) =>
                IF LastCount(q, s_Other) > 0 \/ LastCount(q, s_OtherElaborated) > 0
                THEN /\ CatchAllEntries(q) = 1
                     /\ Holds(q, s_Other)
                     /\ Stored(q, s_Other) =
                          LastCount(q, s_Other) + LastCount(q, s_OtherElaborated)
                ELSE /\ CatchAllEntries(q) = 2
                     /\ Stored(q, s_Other) = LastCount(q, s_Other)
                     /\ Stored(q, s_OtherElaborated) = LastCount(q, s_OtherElaborated)

\* C2 witness: both catch-all options were loaded for a Q4: question and merged into 5
C2_Witness ==
    /\ Loaded
    /\ \E q \in DictKeys(questions_data) :
         /\ IsQ4Q5(q) /\ HasRow(q, s_Other) /\ HasRow(q, s_OtherElaborated)
         /\ LastCount(q, s_Other) = 3 /\ LastCount(q, s_OtherElaborated) = 2
         /\ CatchAllEntries(q) = 1 /\ Stored(q, s_Other) = 5

\* safe_read_csv returned a table (it did not raise, and did not give up)
TableRead == pc = "done" /\ read_result.raised = "none" /\ ~read_result.reported

\* the columns of the table that was read
ReadColumns == safe_read_csv(csv_file).df.columns

\* C9: a table that lacks one of the columns question, option, count makes load_data
\* report the missing columns and leave questions_data empty: nothing is aggregated
\* and the load is not reported as a success.
C9_MissingColumnEmpty ==
    (TableRead /\ ~(RequiredColumns \subseteq ReadColumns)) =>
        /\ questions_data = EmptyDict
        /\ messages = {"CSV file must contain columns"}

\* C9 witness: a two-row table whose question column is spelled "Question" was loaded
C9_Witness ==
    /\ TableRead
    /\ ReadColumns = {"Question", "option", "count"}
    /\ Len(csv_file.rows) = 2
    /\ questions_data = EmptyDict

\* C10, as stated: a missing or non-numeric count is aggregated as 0 and is never
\* fatal, so every row of the table that passes the year filter is aggregated.
C10_BadCountNotFatal ==
    (TableRead /\ RequiredColumns \subseteq ReadColumns) =>
        \A i \in DOMAIN SourceRows :
            /\ DictHas(questions_data, strip(SourceRows[i].question))
            /\ (Len(SourceRows) = 1 /\ SourceRows[i].count.t \in {"nan", "text"}) =>
                 /\ Holds(strip(SourceRows[i].question), strip(SourceRows[i].option))
                 /\ Stored(strip(SourceRows[i].question), strip(SourceRows[i].option)) = 0

\* C8, as stated: safe_read_csv never raises to its caller, whatever makes a read fail.
C8_NeverRaises == pc = "done" => read_result.raised = "none"

(***************************************************************************)
(* What the claims about the rendering of the general page speak of.       *)
(***************************************************************************)
\* a question was selected and rendered
Rendered == pc = "done" /\ page.auto_chart_type # "none"

\* the OptionCounts of the selected question
SelectedData == DictGet(questions_data, page.selected_question, EmptyDict)

\* C3: for a non-empty OptionCounts the selector of the general page answers pie for at
\* most 5 options; else horizontal bar when a label is longer than 20 characters or
\* there are more than 10 options; else vertical bar; an untouched chart-type box shows
\* that answer.
C3_SelectorCascade ==
    Rendered =>
        LET n == Len(SelectedData)
            long == \E i \in DOMAIN SelectedData : Len(SelectedData[i].k) > 20
        IN /\ n >= 1
           /\ n <= 5 => page.auto_chart_type = "pie"
           /\ (n > 5 /\ (long \/ n > 10)) => page.auto_chart_type = "horizontal_bar"
           /\ (n > 5 /\ ~long /\ n <= 10) => page.auto_chart_type = "bar"
           /\ chart_type_selector = "unset" =>
                page.chart_type =
                    CASE page.auto_chart_type = "pie" -> "Pie Chart"
                      [] page.auto_chart_type = "horizontal_bar" -> "Horizontal Bar"
                      [] page.auto_chart_type = "bar" -> "Bar Chart"

\* C3 witness: six options, the last of them 21 characters long, give a horizontal bar
C3_Witness ==
    /\ Rendered
    /\ Len(SelectedData) = 6
    /\ \A i \in 1..5 : Len(SelectedData[i].k) = 20
    /\ Len(SelectedData[6].k) = 21
    /\ page.auto_chart_type = "horizontal_bar"
    /\ page.chart_type = "Horizontal Bar"

\* the options the page hands to the chart and the table: for a Q4:/Q5: question with
\* a positive total, those whose label does not contain "other" in any case
Handed ==
    LET Shown(e) ==
            ~\E i \in 1..(Len(e.k) - 4) :
                /\ e.k[i] \in {"o", "O"} /\ e.k[i + 1] \in {"t", "T"}
                /\ e.k[i + 2] \in {"h", "H"} /\ e.k[i + 3] \in {"e", "E"}
                /\ e.k[i + 4] \in {"r", "R"}
        marked == \E i \in 1..(Len(page.selected_question) - 2) :
                    /\ page.selected_question[i] = "Q"
                    /\ page.selected_question[i + 1] \in {"4", "5"}
                    /\ page.selected_question[i + 2] = ":"
    IN IF marked /\ SumValues(SelectedData) > 0
       THEN SelectSeq(SelectedData, Shown)
       ELSE SelectedData

AllZero(data) == \A i \in DOMAIN data : data[i].v = 0

\* C5, as stated: a selected question whose OptionCounts is empty or all zero gets a
\* placeholder chart and no percentage table.
C5_AllZeroPlaceholder ==
    (Rendered /\ (SelectedData = EmptyDict \/ AllZero(SelectedData))) =>
        /\ page.fig.kind = "error"
        /\ ~page.table.shown

\* C5, amended: when no option of the selected question is handed to the renderer (a
\* Q4:/Q5: question with a positive total all of whose options are "other" options),
\* the page shows a placeholder chart that carries an error text, and no percentage
\* table; when the options handed over are not empty and all their counts are zero, it
\* shows an ordinary chart of the chosen type and a percentage table with "0%" in
\* every row.
C5_EmptyPlaceholderZeroTable ==
    Rendered =>
        /\ Handed = EmptyDict =>
             /\ page.fig.kind = "error"
             /\ page.fig.annotation # ""
             /\ page.fig.categories = <<>>
             /\ ~page.table.shown
        /\ (Handed # EmptyDict /\ AllZero(Handed)) =>
             /\ page.fig.kind \in {"pie", "bar", "horizontal_bar"}
             /\ Len(page.fig.categories) = Len(Handed)
             /\ page.table.shown
             /\ Len(page.table.rows) = Len(Handed)
             /\ \A i \in DOMAIN page.table.rows :
                  page.table.rows[i].Percentage = <<"0", "%">>

\* C5 witness: a Q4: question whose only option is "Other", with a positive count,
\* was rendered as a placeholder without a table
C5_Witness ==
    /\ Rendered
    /\ SelectedData # EmptyDict
    /\ Handed = EmptyDict
    /\ page.fig.kind = "error"
    /\ ~page.table.shown

\* the tenths of a percent that a Percentage text such as "60.0%" or "-2.5%" states
TenthsOfText(text) ==
    LET negative == text[1] = "-"
        body == IF negative THEN Tail(text) ELSE text
        n == Len(body)
        whole == SubSeq(body, 1, n - 3)
        tenths == 10 * ParseInt(whole) + DigitValue(body[n - 1])
    IN IF negative THEN -tenths ELSE tenths

\* a Percentage text of the form d+.d% (with an optional sign)
IsPercentText(text) ==
    LET body == IF text # <<>> /\ text[1] = "-" THEN Tail(text) ELSE text
        n == Len(body)
    IN /\ n >= 4
       /\ body[n] = "%" /\ body[n - 2] = "." /\ IsDigit(body[n - 1])
       /\ \A i \in 1..(n - 3) : IsDigit(body[i])

RECURSIVE SumCounts(_)
SumCounts(rows) == IF rows = <<>> THEN 0 ELSE Head(rows).Count + SumCounts(Tail(rows))

RECURSIVE SumPercentTenths(_)
SumPercentTenths(rows) ==
    IF rows = <<>> THEN 0
    ELSE TenthsOfText(Head(rows).Percentage) + SumPercentTenths(Tail(rows))

\* C6: the percentage table lists the options handed to it by descending count; with
\* a total > 0 each Percentage is count / total * 100 rounded to one decimal and
\* followed by "%", with a total of 0 it is "0%" in every row.
C6_PercentageTable ==
    (Rendered /\ page.table.shown) =>
        LET rows == page.table.rows
            total == SumCounts(rows)
        IN /\ Len(rows) = Len(Handed)
           /\ \A i \in DOMAIN Handed :
                \E j \in DOMAIN rows :
                    rows[j].Option = Handed[i].k /\ rows[j].Count = Handed[i].v
           /\ \A i, j \in DOMAIN rows : i < j => rows[i].Count >= rows[j].Count
           /\ total > 0 =>
                \A i \in DOMAIN rows :
                    /\ IsPercentText(rows[i].Percentage)
                    /\ 2 * Abs(TenthsOfText(rows[i].Percentage) * total
                               - 1000 * rows[i].Count) <= total
           /\ total = 0 =>
                \A i \in DOMAIN rows : rows[i].Percentage = <<"0", "%">>

\* C6 witness: Yes 20 and No 30 are listed as No 30 60.0%, Yes 20 40.0%
C6_Witness ==
    /\ Rendered
    /\ SelectedData = <<[k |-> t_Yes, v |-> 20], [k |-> t_No, v |-> 30]>>
    /\ page.table.shown
    /\ page.table.rows =
         <<[Option |-> t_No, Count |-> 30, Percentage |-> <<"6", "0", ".", "0", "%">>],
           [Option |-> t_Yes, Count |-> 20, Percentage |-> <<"4", "0", ".", "0", "%">>]>>

\* C7, as stated: with a total > 0 the Percentage values of the table add up to 100.0
\* give or take 0.1, for any number of options.
C7_SumWithinOneTenth ==
    (Rendered /\ page.table.shown /\ SumCounts(page.table.rows) > 0) =>
        Abs(SumPercentTenths(page.table.rows) - 1000) <= 1

\* C7, amended: with a total > 0 the Percentage values of the table add up to 100.0
\* give or take 0.05 for each row of the table (each row is rounded on its own), so
\* within 0.1 only for tables of at most two rows.
C7_SumWithinHalfTenthPerRow ==
    (Rendered /\ page.table.shown /\ SumCounts(page.table.rows) > 0) =>
        2 * Abs(SumPercentTenths(page.table.rows) - 1000) <= Len(page.table.rows)

\* C7 witness: six options of count 1 are shown as 16.7% each, 100.2% in all
C7_Witness ==
    /\ Rendered
    /\ page.table.shown
    /\ Len(page.table.rows) = 6
    /\ SumCounts(page.table.rows) = 6
    /\ SumPercentTenths(page.table.rows) = 1002

(***************************************************************************)
(* What the claims about the specialized page speak of.                    *)
(***************************************************************************)
\* the specialized page ran to its end and drew its three charts
GroupsRendered == pc = "done" /\ group_page.status = "rendered"

\* C4: on the specialized page the chart type of each of Q3, Q4 and Q5 is bar when the
\* group's result has 5 or more options and pie otherwise, whatever the lengths of
\* the option labels; a result that is not empty is drawn as a chart of that type.
C4_BarFromFiveOptions ==
    GroupsRendered =>
        \A g \in {"Q3", "Q4", "Q5"} :
           LET results == group_page.results[g] IN
           /\ Len(results) >= 5 =>
                group_page.chart_type[g] = "bar" /\ group_page.fig[g].kind = "bar"
           /\ Len(results) < 5 => group_page.chart_type[g] = "pie"
           /\ Len(results) \in 1..4 => group_page.fig[g].kind = "pie"

\* C4 witness: Q5 has exactly five options and is a bar chart although one of its
\* labels is 11 characters long, Q3 has one option of more than 20 characters and is
\* a pie chart
C4_Witness ==
    /\ GroupsRendered
    /\ Len(group_page.results["Q5"]) = 5
    /\ \E i \in DOMAIN group_page.results["Q5"] : Len(group_page.results["Q5"][i].k) = 11
    /\ group_page.fig["Q5"].kind = "bar"
    /\ Len(group_page.results["Q3"]) = 1
    /\ MaxLabelLength(group_page.results["Q3"]) > 20
    /\ group_page.fig["Q3"].kind = "pie"

\* the rows of a group's file whose year passes the year filter
YearRows(g) == ApplyYearFilter(safe_read_csv(group_files[g]).df, selected_year).rows

\* the page filters by a region
RegionFiltered == group_page.has_region_data /\ group_page.selected_region # "All"

\* the rows of a group's file handed to process_question_data
CountedRows(g) ==
    LET InRegion(row) == row.region = group_page.selected_region
    IN IF RegionFiltered THEN SelectSeq(YearRows(g), InRegion) ELSE YearRows(g)

\* the number of the given rows whose cell of the option column is the literal "YES"
YesRows(rows, id) ==
    Cardinality({i \in DOMAIN rows : id \in rows[i].flagged /\ rows[i].cell = "YES"})

t_KnowledgeDevelopment ==
    <<"K", "n", "o", "w", "l", "e", "d", "g", "e", " ", "d", "e", "v", "e", "l", "o",
    "p", "m", "e", "n", "t", " ", "a", "n", "d", " ", "d", "i", "s", "s", "e", "m", "i",
    "n", "a", "t", "i", "o", "n">>

t_YoungWomen ==
    <<"Y", "o", "u", "n", "g", " ", "w", "o", "m", "e", "n">>

\* C11: process_question_data returns, for each known column of the group that is in
\* the table and has at least one row whose cell is the literal "YES", an entry under
\* the column's cleaned label holding the number of such rows; a known column with no
\* such row, or absent from the table, has no entry, and there is no other entry.
C11_YesCountsPerColumn ==
    GroupsRendered =>
        \A g \in {"Q3", "Q4", "Q5"} :
           LET results == group_page.results[g]
               Known == DOMAIN GroupColumns(g)
               Present(i) == HeaderIds(g)[i] \in group_files[g].columns
               n(i) == YesRows(CountedRows(g), HeaderIds(g)[i])
               label(i) == rstrip_periods(strip(GroupColumns(g)[i]))
           IN /\ \A i \in Known :
                   IF Present(i) /\ n(i) > 0
                   THEN \E j \in DOMAIN results :
                           results[j].k = label(i) /\ results[j].v = n(i)
                   ELSE \A j \in DOMAIN results : results[j].k # label(i)
              /\ Len(results) = Cardinality({i \in Known : Present(i) /\ n(i) > 0})

\* C11 witness: two rows of the Q3 table flag the first column, one of them flags the
\* second one too, spelled "Yes" in that row: the result is the first column's label
\* without its period and blank, with 1
C11_Witness ==
    /\ GroupsRendered
    /\ Len(group_files["Q3"].rows) = 2
    /\ group_files["Q3"].rows[1].flagged = {"Q3.1"}
    /\ group_files["Q3"].rows[2].flagged = {"Q3.1", "Q3.2"}
    /\ group_files["Q3"].rows[2].cell = "Yes"
    /\ ~RegionFiltered
    /\ group_page.results["Q3"] = <<[k |-> t_KnowledgeDevelopment, v |-> 1]>>

\* the region the page is asked to filter by: the one shared in the session when the
\* session holds both keys, else the one picked in the sidebar among the regions of
\* the Q3 table, "All" when nothing is picked or the Q3 table has no region column
AskedRegion ==
    IF {"selected_region", "regions_options"} \subseteq session_region.keys
    THEN session_region.selected_region
    ELSE IF "Department/Region" \in group_files["Q3"].columns
            /\ \E i \in DOMAIN YearRows("Q3") : YearRows("Q3")[i].region = sidebar_region
    THEN sidebar_region
    ELSE "All"

\* the number of YES rows of an option column among the rows of the asked region
YesRowsOfRegion(g, id) ==
    Cardinality({i \in DOMAIN YearRows(g) :
                   /\ id \in YearRows(g)[i].flagged
                   /\ YearRows(g)[i].cell = "YES"
                   /\ AskedRegion # "All" => YearRows(g)[i].region = AskedRegion})

\* C12: on the specialized page, when a region other than "All" is selected the counts
\* of Q3, Q4 and Q5 are taken over the rows whose Department/Region equals the selected
\* region only; when "All" is selected, or there is no region data, over all rows.
C12_CountsOfSelectedRegion ==
    GroupsRendered =>
        /\ group_page.selected_region = AskedRegion
        /\ \A g \in {"Q3", "Q4", "Q5"} :
              \A i \in DOMAIN GroupColumns(g) :
                 HeaderIds(g)[i] \in group_files[g].columns =>
                    DictGet(group_page.results[g], CleanName(GroupColumns(g)[i]), 0)
                        = YesRowsOfRegion(g, HeaderIds(g)[i])

\* C12 witness: North is picked in the sidebar; of the two rows of the Q5 table the
\* one of South flags two columns and the one of North the first column, and the
\* result of Q5 is the first column with 1
C12_Witness ==
    /\ GroupsRendered
    /\ sidebar_region = "North"
    /\ group_page.selected_region = "North"
    /\ Len(group_files["Q5"].rows) = 2
    /\ group_files["Q5"].rows[1].region = "South"
    /\ group_files["Q5"].rows[1].flagged = {"Q5.1", "Q5.2"}
    /\ group_files["Q5"].rows[1].cell = "YES"
    /\ group_files["Q5"].rows[2].region = "North"
    /\ group_files["Q5"].rows[2].flagged = {"Q5.1"}
    /\ group_page.results["Q5"] = <<[k |-> t_YoungWomen, v |-> 1]>>

(***************************************************************************)
(* What the claim about the year filter speaks of.                         *)
(***************************************************************************)
\* the column the year filter reads: YEAR, failing that year, "none" without both
YearColumn ==
    IF "YEAR" \in csv_file.columns THEN "YEAR"
    ELSE IF "year" \in csv_file.columns THEN "year" ELSE "none"

\* the i-th row of the raw table is of the selected year
OfSelectedYear(i) ==
    \/ selected_year = s_All
    \/ YearColumn = "none"
    \/ YearColumn = "YEAR" /\ strip(csv_file.rows[i].YEAR) = selected_year
    \/ YearColumn = "year" /\ strip(csv_file.rows[i].year) = selected_year

\* int() rejects the count of the i-th row of the raw table
CountRejected(i) ==
    IntRaises(csv_file.rows[i].count, IsObjectColumn(csv_file.rows))

\* the (question, option) pair of the i-th row is kept in questions_data, the two
\* catch-all options of a Q4:/Q5: question possibly as "Other"
RowKept(i) ==
    LET question == strip(csv_file.rows[i].question)
        option == strip(csv_file.rows[i].option)
    IN \/ Holds(question, option)
       \/ IsQ4Q5(question) /\ option \in CatchAll /\ Holds(question, s_Other)

\* the pair (question, option) of questions_data is the pair of the i-th row
PairOfRow(question, option, i) ==
    /\ strip(csv_file.rows[i].question) = question
    /\ \/ strip(csv_file.rows[i].option) = option
       \/ IsQ4Q5(question) /\ option = s_Other
          /\ strip(csv_file.rows[i].option) \in CatchAll

\* C13: the selected year decides which rows are aggregated: when selected_year is not
\* "All" and the table has a YEAR column (failing that a year column), load_data
\* aggregates exactly the rows whose year, as trimmed text, equals selected_year; when
\* it is "All" every row.  A count that int() rejects stops the load only in a row
\* that is aggregated.
C13_YearDecidesRows ==
    (TableRead /\ RequiredColumns \subseteq ReadColumns) =>
        LET rows == DOMAIN csv_file.rows IN
        IF \E i \in rows : OfSelectedYear(i) /\ CountRejected(i)
        THEN questions_data = EmptyDict /\ "Error loading data" \in messages
        ELSE /\ \A i \in rows : OfSelectedYear(i) => RowKept(i)
             /\ \A q \in DOMAIN questions_data :
                   \A o \in DOMAIN questions_data[q].v :
                      \E i \in rows :
                         /\ OfSelectedYear(i)
                         /\ PairOfRow(questions_data[q].k, questions_data[q].v[o].k, i)

\* C13 witness: 2024 is selected; the first row is of 2023 by YEAR and of 2024 by
\* year, the second one of " 2024" by YEAR and of 2023 by year: the second row alone
\* was aggregated, its count of 2.5 as 2
C13_Witness ==
    /\ pc = "done"
    /\ selected_year = t_2024
    /\ Len(csv_file.rows) = 2
    /\ {"YEAR", "year"} \subseteq csv_file.columns
    /\ csv_file.rows[1].YEAR = t_2023 /\ csv_file.rows[1].year = t_2024Padded
    /\ csv_file.rows[2].YEAR = t_2024Padded /\ csv_file.rows[2].year = t_2023
    /\ csv_file.rows[2].count = Num(25)
    /\ questions_data = <<[k |-> t_Q1A, v |-> <<[k |-> s_OtherElaborated, v |-> 2]>>]>>

(***************************************************************************)
(* What the claims about the chart title speak of.                         *)
(***************************************************************************)
\* a chart of the selected question was drawn
TitleDrawn == Rendered /\ page.fig.kind \in {"pie", "bar", "horizontal_bar"}

\* the title handed to the chart, and the title the chart shows
GivenTitle == page.selected_question
ShownTitle == page.fig.title

Marked(title) == Contains(title, s_Q2) \/ Contains(title, s_Q3)

\* the index of the first line break of a text, 0 when it has none
FirstBreak(text) ==
    LET At(i) == i + 3 <= Len(text) /\ SubSeq(text, i, i + 3) = s_br
    IN IF \E i \in 1..Len(text) : At(i)
       THEN CHOOSE i \in 1..Len(text) : At(i) /\ \A j \in 1..(i - 1) : ~At(j)
       ELSE 0

\* the lines of a text: what its line breaks separate
RECURSIVE Lines(_)
Lines(text) ==
    IF FirstBreak(text) = 0 THEN <<text>>
    ELSE <<SubSeq(text, 1, FirstBreak(text) - 1)>>
            \o Lines(SubSeq(text, FirstBreak(text) + 4, Len(text)))

\* the index of the first colon of the given title
FirstColon == CHOOSE i \in 1..Len(GivenTitle) :
                 GivenTitle[i] = ":" /\ \A j \in 1..(i - 1) : GivenTitle[j] # ":"

\* the title up to its first colon, and the text after it without the blanks around
QuestionPart == SubSeq(GivenTitle, 1, FirstColon)
ContentPart == strip(SubSeq(GivenTitle, FirstColon + 1, Len(GivenTitle)))

\* the blanks of the text after the colon; its words are what they separate, so
\* there is one word more than there are blanks
ContentBlanks == {i \in 1..Len(ContentPart) : ContentPart[i] = " "}

\* the blank that follows the k-th word of the text after the colon
BlankAfterWord(k) ==
    CHOOSE i \in ContentBlanks : Cardinality({j \in ContentBlanks : j <= i}) = k

WordsOf(text) ==
    LET NotEmpty(piece) == piece # <<>>
    IN SelectSeq(split(text, " "), NotEmpty)

\* the words of the lines, in the order of the lines
RECURSIVE WordsOfLines(_)
WordsOfLines(lines) ==
    IF lines = <<>> THEN <<>> ELSE WordsOf(Head(lines)) \o WordsOfLines(Tail(lines))

\* C15: a title without "Q2:" and "Q3:" is wrapped at 50 characters a line by packing
\* whole words greedily: a title of at most 50 characters is shown unchanged; the
\* lines hold the words of the title whole and in order; the word that opens a line
\* did not fit at the end of the line before; no line is longer than 50 characters
\* unless it is a single word that is itself longer.
C15_GreedyWrapAtFifty ==
    (TitleDrawn /\ ~Marked(GivenTitle)) =>
        LET lines == Lines(ShownTitle)
        IN IF Len(GivenTitle) <= 50
           THEN ShownTitle = GivenTitle
           ELSE /\ WordsOfLines(lines) = WordsOf(GivenTitle)
                /\ \A i \in DOMAIN lines :
                      /\ lines[i] # <<>>
                      /\ Len(lines[i]) > 50 =>
                            WordsOf(lines[i]) = <<lines[i]>>
                /\ \A i \in 1..(Len(lines) - 1) :
                      Len(lines[i]) + 1 + Len(WordsOf(lines[i + 1])[1]) > 50

\* C15 witness: "Q1: " and words of 46, 47 and 1 characters: the first line is full
\* at 50 characters, the word of 47 opens the second line and takes the word of 1
C15_Witness ==
    /\ TitleDrawn
    /\ GivenTitle = TitleOf(s_Q1, <<" ">>, <<46, 47, 1>>)
    /\ Lines(ShownTitle) = <<s_Q1 \o <<" ">> \o TitleWord(1, 46),
                             TitleWord(2, 47) \o <<" ", "c">>>>

\* C16, as stated: before the chart and the percentage table are produced every
\* option with a negative value has been dropped: no negative count is among the
\* values of the chart nor in the rows of the percentage table.
C16_NoNegativeShown ==
    Rendered =>
        /\ \A i \in DOMAIN page.fig.values : page.fig.values[i] >= 0
        /\ \A i \in DOMAIN page.table.rows : page.table.rows[i].Count >= 0

(***************************************************************************)
(* What the claim about create_chart_unified speaks of.                    *)
(***************************************************************************)
\* the data of the call has a point to draw: it is a dict, and one of its items has
\* a key and a value other than None and a value that is not a negative number
HasValidPoint ==
    /\ chart_call.data.kind = "dict"
    /\ \E i \in DOMAIN chart_call.data.entries :
          LET e == chart_call.data.entries[i] IN
          /\ e.k # NoneKey
          /\ e.v.t \in {"int", "str"}
          /\ e.v.t = "int" => e.v.n >= 0

\* C17: create_chart_unified never raises: for every input (empty data, data that is
\* no mapping, data without a valid point) the failure is caught, reported, and
\* replaced by a placeholder chart whose annotation carries the error text; that
\* placeholder is what the function returns.
C17_ChartNeverRaises ==
    pc = "done" /\ chart_call # NoChartCall =>
        /\ chart_outcome.raised = "none"
        /\ IF HasValidPoint
           THEN /\ chart_outcome.fig.kind \in {"pie", "bar", "horizontal_bar"}
                /\ ~chart_outcome.reported
           ELSE /\ chart_outcome.fig.kind = "error"
                /\ chart_outcome.reported
                /\ chart_outcome.fig.annotation \in
                     {"Chart Error: Invalid data: expected non-empty dictionary",
                      "Chart Error: No valid data points found"}
                /\ chart_outcome.fig.categories = <<>>

\* C17 witness: a list was handed over as the data and the placeholder came back
C17_Witness ==
    /\ pc = "done"
    /\ chart_call.data.kind = "list"
    /\ chart_outcome.raised = "none"
    /\ chart_outcome.reported
    /\ chart_outcome.fig.kind = "error"
    /\ chart_outcome.fig.annotation =
         "Chart Error: Invalid data: expected non-empty dictionary"

\* C18, as stated: in every questions_data that load_data leaves, after the row
\* aggregation and after the Other-merge, every stored count is >= 0, whatever the
\* counts of the source rows.
C18_CountsNonNegative ==
    \A q \in DOMAIN questions_data :
       \A o \in DOMAIN questions_data[q].v : questions_data[q].v[o].v >= 0

(***************************************************************************)
(* What the claim about running the page again speaks of.                  *)
(***************************************************************************)
\* two tables hold the same questions, options and counts
SameCounts(a, b) ==
    /\ {a[i].k : i \in DOMAIN a} = {b[i].k : i \in DOMAIN b}
    /\ \A i \in DOMAIN a :
          LET x == a[i].v
              y == DictGet(b, a[i].k, EmptyDict)
          IN /\ {x[j].k : j \in DOMAIN x} = {y[j].k : j \in DOMAIN y}
             /\ \A j \in DOMAIN x : DictGet(y, x[j].k, 0) = x[j].v

GeneralReadFailed == pc = "done" /\ read_result.raised # "none"

\* the general page reports the failure, shows its empty-state message and stops
GeneralFailureShortCircuits ==
    GeneralReadFailed =>
       /\ "Error loading data" \in messages
       /\ questions_data = EmptyDict
       /\ page = [NothingRendered EXCEPT !.messages = {"No data available"}]

\* the specialized page was run and one of its three files is missing or unreadable
GroupReadFailed ==
    /\ group_page.status # "none"
    /\ \E g \in {"Q3", "Q4", "Q5"} : group_files[g].state # "ok"

\* the specialized page reports the failure and stops
GroupFailureShortCircuits ==
    GroupReadFailed =>
       /\ group_page.status = "stopped"
       /\ group_page.messages = {"Data files not found"}
       /\ \A g \in {"Q3", "Q4", "Q5"} :
             /\ group_page.chart_type[g] = "none"
             /\ group_page.fig[g] = NoFigure
             /\ group_page.results[g] = EmptyDict

\* C20: on both pages, when a source file is missing or unreadable, the failure is
\* reported to the user and the render stops at an empty-state message: no chart type
\* is selected, no chart and no table is shown.
C20_FileFailureShortCircuits ==
    /\ GeneralFailureShortCircuits
    /\ GroupFailureShortCircuits

(***************************************************************************)
(* What the claim about uncaught failures speaks of.                       *)
(***************************************************************************)
\* an exception left create_layout of the specialized page
GroupRenderRaised == pc = "done" /\ group_page.status = "raised"

\* an exception of the read of the general page's file ended inside load_data
GeneralFailureHandled ==
    (pc = "done" /\ read_result.raised # "none") =>
       /\ messages = {"Error loading data"}
       /\ page.messages = {"No data available"}

\* C21: whatever the source tables hold (a table without the Department/Region column
\* included) and whatever the shared filter state is, a render of either page runs to
\* its end: no exception leaves create_layout.
C21_NoUncaughtFailure ==
    /\ GeneralFailureHandled
    /\ ~GroupRenderRaised

(***************************************************************************)
(* What the claim about the "other" options speaks of.                     *)
(***************************************************************************)
\* the label holds the letters o, t, h, e, r in a row, in any case
NamesOther(label) ==
    \E i \in 1..(Len(label) - 4) :
        /\ label[i] \in {"o", "O"} /\ label[i + 1] \in {"t", "T"}
        /\ label[i + 2] \in {"h", "H"} /\ label[i + 3] \in {"e", "E"}
        /\ label[i + 4] \in {"r", "R"}

NotNamingOther(e) == ~NamesOther(e.k)

\* the selected question is a Q4: or Q5: question whose counts sum to more than 0
OtherFilterApplies ==
    /\ \E i \in 1..(Len(page.selected_question) - 2) :
          /\ page.selected_question[i] = "Q"
          /\ page.selected_question[i + 1] \in {"4", "5"}
          /\ page.selected_question[i + 2] = ":"
    /\ SumValues(SelectedData) > 0

ChartDrawn == page.fig.kind \in {"pie", "bar", "horizontal_bar"}

\* C22: for a selected Q4:/Q5: question whose counts sum to more than 0, no option
\* whose label contains "other" in any case is in the chart or in the percentage
\* table, and the total of the table is the sum of the remaining options; for every
\* other question each option is handed on: each has its row in the table, and each
\* with a count >= 0 its place in a drawn chart.
C22_OtherOptionsRemoved ==
    Rendered =>
        LET rows == page.table.rows
            categories == page.fig.categories
            kept == SelectSeq(SelectedData, NotNamingOther)
        IN IF OtherFilterApplies
           THEN /\ \A i \in DOMAIN categories : ~NamesOther(categories[i])
                /\ \A i \in DOMAIN rows : ~NamesOther(rows[i].Option)
                /\ SumCounts(rows) = SumValues(kept)
                /\ Len(rows) = Len(kept)
                /\ \A i \in DOMAIN kept :
                      \E j \in DOMAIN rows :
                          rows[j].Option = kept[i].k /\ rows[j].Count = kept[i].v
           ELSE /\ page.table.shown
                /\ Len(rows) = Len(SelectedData)
                /\ \A i \in DOMAIN SelectedData :
                      \E j \in DOMAIN rows :
                          /\ rows[j].Option = SelectedData[i].k
                          /\ rows[j].Count = SelectedData[i].v
                /\ ChartDrawn =>
                      \A i \in DOMAIN SelectedData :
                         SelectedData[i].v >= 0 =>
                            \E j \in DOMAIN categories :
                                /\ categories[j] = SelectedData[i].k
                                /\ page.fig.values[j] = SelectedData[i].v

\* C22 witness: the Q4: question holds Yes 1 and Other 20; the chart and the table
\* show Yes alone, with 100.0%
C22_Witness ==
    /\ Rendered
    /\ OtherFilterApplies
    /\ SelectedData = <<[k |-> t_Yes, v |-> 1], [k |-> s_Other, v |-> 20]>>
    /\ page.fig.categories = <<t_Yes>>
    /\ page.table.rows =
         <<[Option |-> t_Yes, Count |-> 1,
            Percentage |-> <<"1", "0", "0", ".", "0", "%">>]>>

(***************************************************************************)
(* What the claim about the questions offered for selection speaks of.     *)
(***************************************************************************)
\* the label starts with Q or q, then n digits, then a colon
HasNumeral(label, n) ==
    /\ Len(label) >= n + 2
    /\ label[1] \in {"Q", "q"}
    /\ \A i \in 2..(n + 1) : IsDigit(label[i])
    /\ label[n + 2] = ":"

\* the ordering key of a question: its leading numeral, 999 when it has none
OrderingKey(label) ==
    IF \E n \in 1..Len(label) : HasNumeral(label, n)
    THEN ParseInt(SubSeq(label, 2, 1 + CHOOSE n \in 1..Len(label) : HasNumeral(label, n)))
    ELSE 999

\* the questions of questions_data, and those the page offers for selection
StoredQuestions == {questions_data[i].k : i \in DOMAIN questions_data}
Offered == page.filtered_questions

\* C23: the questions offered for selection are exactly the questions of
\* questions_data whose ordering key is <= 5, each once, in ascending order of the
\* key; the selected question is one of them; when none qualifies the render stops
\* with the warning "No questions available", no chart type chosen and no chart made.
C23_QuestionsOffered ==
    Loaded =>
        /\ {Offered[i] : i \in DOMAIN Offered}
              = {q \in StoredQuestions : OrderingKey(q) <= 5}
        /\ \A i, j \in DOMAIN Offered :
              i < j => /\ Offered[i] # Offered[j]
                       /\ OrderingKey(Offered[i]) <= OrderingKey(Offered[j])
        /\ Offered # <<>> =>
              \E i \in DOMAIN Offered : Offered[i] = page.selected_question
        /\ Offered = <<>> =>
              page = [NothingRendered EXCEPT !.messages = {"No questions available"}]

\* C23 witness: of the stored questions Q5: G, Q10: E and q2: d the page offers
\* q2: d and Q5: G, in this order, and the user has picked Q5: G
C23_Witness ==
    /\ Loaded
    /\ KeyList(questions_data) = <<t_Q5G, t_Q10E, t_q2d>>
    /\ Offered = <<t_q2d, t_Q5G>>
    /\ page.selected_question = t_Q5G

\* a second case: only Q7: C and Q3 H are stored, nothing is offered
C23_NothingOffered ==
    /\ Loaded
    /\ StoredQuestions = {t_Q7C, t_Q3H}
    /\ Offered = <<>>

====
